---- MODULE Spec2Model ----
(***************************************************************************)
(* neurograph: the in-memory grid storage (src/api/storage/memory.py) and  *)
(* the spatial Grid it delegates to.                                       *)
(*                                                                         *)
(* Numbers.  Coordinates, radii, bucket sizes and distances are fixed      *)
(* point integers in hundredths of a world unit (3.0 is 300, 4.9 is 490).  *)
(* The float properties of a Python Token (weight, field_radius,           *)
(* field_strength) are in thousandths (10.0 is 10000).  A Grid token keeps *)
(* field_radius and field_strength as the integers add_token stores:       *)
(* hundredths of a world unit and 255ths of a unit of strength.            *)
(***************************************************************************)
EXTENDS Integers, Sequences, FiniteSets, TLC

VARIABLES
    grids,          \* InMemoryGridStorage._grids: grid id -> Grid
    next_grid_id,   \* InMemoryGridStorage._next_grid_id
    added,          \* history: grid id -> (token id -> the Token last passed
                    \* to add_token and not removed since)
    result,         \* the last call: its name, its arguments, what it returned,
                    \* and (history) whether its token was in the grid before
                    \* the call and whether the call gave it new coordinates
    issued,         \* history: the ids create_grid has returned, in order
    lock,           \* InMemoryGridStorage._lock: the thread that holds it
    calls,          \* thread -> the storage call or request it is in
    storage,        \* InMemoryTokenStorage._storage: token id -> Token
    next_local_id,  \* InMemoryTokenStorage._next_local_id
    local_ids,      \* history: the local ids create has packed into ids, in order
    created,        \* history: the ids of the tokens created since the last clear
                    \* and not deleted since, in order
    now,            \* time.time(), in ticks since the process started
    buckets,        \* RateLimitMiddleware.buckets: user id -> TokenBucket (its instance)
    bucket_objs,    \* the TokenBucket instances: instance -> capacity, tokens, last_update
    next_instance,  \* the instance the next TokenBucket() is
    last_access,    \* RateLimitMiddleware.last_access: user id -> time
    last_cleanup,   \* RateLimitMiddleware.last_cleanup
    inflight,       \* the requests admitted and waiting in call_next
    response,       \* the last response of dispatch (and, history, whether the
                    \* request reached the handler)
    admitted,       \* history, by user id: the times its requests were admitted,
                    \* how many it sent, and the last one (time, code, bucket)
    consumers,      \* thread -> where it is in TokenBucket.consume
    bucket_lock,    \* TokenBucket.lock: the thread that holds it
    outcomes,       \* history: what the consume() calls returned, in order
    last_call,      \* history: the last call on the bucket made by a single caller
    startup_complete,   \* health._startup_complete
    deps,               \* what the dependencies of the health endpoints do now
    health_response,    \* the last response of a health endpoint
    PROFILES,       \* InMemoryCDNAStorage.PROFILES: profile id -> its list of scales
    lists,          \* the list objects: list -> its elements
    _config,        \* InMemoryCDNAStorage._config
    _history,       \* InMemoryCDNAStorage._history, most recent first
    _quarantine,    \* InMemoryCDNAStorage._quarantine
    cdna_result,    \* the last call on the CDNA storage: what it was given and
                    \* returned, and (history) the storage before it
    _instance,      \* InMemoryTokenStorage._instance: "none", "bare" (made,
                    \* _initialized not yet set) or "made"
    _initialized,   \* _instance._initialized
    class_lock,     \* InMemoryTokenStorage._lock (of the class): the thread that holds it
    ctor            \* thread -> where it is in InMemoryTokenStorage() and after

threadVars == <<lock, calls>>
tokenStorageVars == <<storage, next_local_id, local_ids, created>>
rateLimitVars == <<buckets, bucket_objs, next_instance, last_access, last_cleanup,
                   inflight, response, admitted>>
bucketVars == <<consumers, bucket_lock, outcomes, last_call>>
healthVars == <<startup_complete, deps, health_response>>
cdnaVars == <<PROFILES, lists, _config, _history, _quarantine, cdna_result>>
singletonVars == <<_instance, _initialized, class_lock, ctor>>
\* the state of the API layer: the clock, the rate limiter, the health router,
\* the CDNA storage and the construction of the storages
apiVars == <<now, rateLimitVars, bucketVars, healthVars, cdnaVars, singletonVars>>
\* the state of the components a grid call does not touch
nonGridVars == <<threadVars, tokenStorageVars>>

vars == <<grids, next_grid_id, added, result, issued, threadVars, tokenStorageVars, apiVars>>

(***************************************************************************)
(* Bounds and program constants                                            *)
(***************************************************************************)
MaxTokenId == 3
MaxGridId == 2
NumThreads == 2
MaxCreates == 3
MaxInstances == 2
\* the clock: ticks in one second, and the last tick the model looks at
TicksPerSecond == 2
MaxTime == 4
\* TokenBucket.consume alone: capacities, threads and calls
BucketCapacity == 2
NumConsumers == 3
MaxConsumes == 4
\* RateLimitMiddleware(default_rate_limit, ip_rate_limit, cleanup_interval),
\* the interval in seconds; the requests and the requests in call_next
DefaultRateLimit == 2
IpRateLimit == 1
CleanupInterval == 1
MaxRequests == 4
MaxInflight == 1
\* the entries the CDNA history may hold
MaxHistory == 2

NumLayers == 8
LocalIdBits == 24
EntityTypeBits == 4
DefaultBucketSize == 1000
RadiusScale == 100
StrengthScale == 255
\* "requests per minute"
WindowSeconds == 60
\* the Retry-After of a 429, in seconds
RetryAfterSeconds == 1
\* health._min_startup_time, in seconds
MinStartupTime == 2

Layers == 0 .. (NumLayers - 1)
TokenIds == 1 .. MaxTokenId
\* a layer without coordinates; an absent optional value ({v} when present)
Unset == <<>>
None == {}
EmptyMap == [x \in {} |-> {}]

(***************************************************************************)
(* Helpers                                                                 *)
(***************************************************************************)
\* Python int(): truncation toward zero of a / b, b > 0
TruncDiv(a, b) == IF a >= 0 THEN a \div b ELSE -((-a) \div b)

RECURSIVE ISqrtRec(_, _, _)
ISqrtRec(n, lo, hi) ==
    IF lo >= hi THEN lo
    ELSE LET mid == (lo + hi + 1) \div 2
         IN  IF mid * mid <= n THEN ISqrtRec(n, mid, hi)
                               ELSE ISqrtRec(n, lo, mid - 1)

\* floor of the square root
ISqrt(n) == ISqrtRec(n, 0, IF n < 46340 THEN n ELSE 46340)

Restrict(f, S) == [k \in S |-> f[k]]
Put(f, k, v) == [x \in DOMAIN f \cup {k} |-> IF x = k THEN v ELSE f[x]]

(***************************************************************************)
(* Token (Python side) and its conversion in add_token                     *)
(***************************************************************************)
NoCoords == [L \in Layers |-> Unset]

PyToken(id, coords, fr, fs, act) ==
    [id |-> id, coords |-> coords, weight |-> 500,
     field_radius |-> fr, field_strength |-> fs, active |-> act]

HasCoords(token, L) == token.coords[L] # Unset

\* mutant: the radius scaled by 1000
FieldRadiusToRust_WrongScale(fr) == TruncDiv(fr * RadiusScale * 10, 1000)

\* rust_token.field_radius = int(token.field_radius * 100)
FieldRadiusToRust(fr) == TruncDiv(fr * RadiusScale, 1000)

\* rust_token.field_strength = int(token.field_strength * 255)
FieldStrengthToRust(fs) == TruncDiv(fs * StrengthScale, 1000)

\* rust_token.set_active(True)
ActiveToRust(act) == TRUE

\* mutant: the last coordinate space is not copied
ToRustToken_DropsLastLayer(token) ==
    [id |-> token.id,
     coords |-> [L \in Layers |->
                    IF HasCoords(token, L) /\ L < NumLayers - 1
                    THEN token.coords[L] ELSE Unset],
     weight |-> token.weight,
     field_radius |-> FieldRadiusToRust(token.field_radius),
     field_strength |-> FieldStrengthToRust(token.field_strength),
     active |-> ActiveToRust(token.active)]

ToRustToken(token) ==
    [id |-> token.id,
     coords |-> [L \in Layers |->
                    IF HasCoords(token, L) THEN token.coords[L] ELSE Unset],
     weight |-> token.weight,
     field_radius |-> FieldRadiusToRust(token.field_radius),
     field_strength |-> FieldStrengthToRust(token.field_strength),
     active |-> ActiveToRust(token.active)]

(***************************************************************************)
(* Bucket index of one layer: bucket key -> set of token ids               *)
(***************************************************************************)
BucketKey(bs, p) == <<p[1] \div bs, p[2] \div bs, p[3] \div bs>>

IndexInsert(idx, key, id) ==
    IF key \in DOMAIN idx THEN [idx EXCEPT ![key] = @ \cup {id}]
                          ELSE Put(idx, key, {id})

IndexRemove_KeepsEmpty(idx, key, id) ==
    IF key \notin DOMAIN idx THEN idx ELSE [idx EXCEPT ![key] = @ \ {id}]

\* an emptied bucket is released
IndexRemove(idx, key, id) ==
    IF key \notin DOMAIN idx THEN idx
    ELSE IF idx[key] \ {id} = {} THEN Restrict(idx, DOMAIN idx \ {key})
    ELSE [idx EXCEPT ![key] = @ \ {id}]

\* buckets_in_radius: the keys of the bounding cube of the sphere, of which
\* only those that hold a bucket matter
InBoundingCube(bs, p, r, key) ==
    \A a \in 1 .. 3 : ((p[a] - r) \div bs) <= key[a] /\ key[a] <= ((p[a] + r) \div bs)

BucketsInRadius(idx, bs, p, r) == { key \in DOMAIN idx : InBoundingCube(bs, p, r, key) }

(***************************************************************************)
(* Grid: token table and one bucket index per layer                        *)
(***************************************************************************)
NewGrid(bs) ==
    [bucket_size |-> bs, tokens |-> EmptyMap, index |-> [L \in Layers |-> EmptyMap]]

GridLen(grid) == Cardinality(DOMAIN grid.tokens)

\* the layer indexes without the entries of token tok
Unindex(grid, tok) ==
    [L \in Layers |->
        IF tok.coords[L] # Unset
        THEN IndexRemove(grid.index[L], BucketKey(grid.bucket_size, tok.coords[L]), tok.id)
        ELSE grid.index[L]]

\* the layer indexes idx with the entries of token tok
Reindex(grid, idx, tok) ==
    [L \in Layers |->
        IF tok.coords[L] # Unset
        THEN IndexInsert(idx[L], BucketKey(grid.bucket_size, tok.coords[L]), tok.id)
        ELSE idx[L]]

\* mutant: a re-added id keeps the entries of its old coordinates
GridAdd_KeepsOldEntries(grid, tok) ==
    [grid EXCEPT !.tokens = Put(grid.tokens, tok.id, tok),
                 !.index = Reindex(grid, grid.index, tok)]

\* Grid.add: a re-added id first loses the entries of its old coordinates
GridAdd(grid, tok) ==
    LET old == IF tok.id \in DOMAIN grid.tokens
               THEN Unindex(grid, grid.tokens[tok.id])
               ELSE grid.index
    IN  [grid EXCEPT !.tokens = Put(grid.tokens, tok.id, tok),
                     !.index = Reindex(grid, old, tok)]

\* Grid.remove: the grid afterwards
GridRemove(grid, id) ==
    IF id \notin DOMAIN grid.tokens THEN grid
    ELSE [grid EXCEPT !.tokens = Restrict(grid.tokens, DOMAIN grid.tokens \ {id}),
                      !.index = Unindex(grid, grid.tokens[id])]

\* Grid.remove: what it returns, the removed token ({tok}) or None ({})
GridRemoved(grid, id) ==
    IF id \in DOMAIN grid.tokens THEN {grid.tokens[id]} ELSE {}

(***************************************************************************)
(* Grid queries                                                            *)
(***************************************************************************)
\* what a call returns: a status ("ok" or the error raised) and, by the type of
\* the value, a flag, a list of <<id, distance>>, a number or a list of ids
OkFlag(b) == [status |-> "ok", flag |-> b, list |-> <<>>, number |-> 0, ids |-> <<>>]
OkList(l) == [status |-> "ok", flag |-> FALSE, list |-> l, number |-> 0, ids |-> <<>>]
OkNumber(n) == [status |-> "ok", flag |-> FALSE, list |-> <<>>, number |-> n, ids |-> <<>>]
OkIds(l) == [status |-> "ok", flag |-> FALSE, list |-> <<>>, number |-> 0, ids |-> l]
Err(e) == [status |-> e, flag |-> FALSE, list |-> <<>>, number |-> 0, ids |-> <<>>]

\* Euclidean distance, in hundredths, rounded down
Distance(p, q) ==
    ISqrt((p[1] - q[1]) * (p[1] - q[1]) + (p[2] - q[2]) * (p[2] - q[2])
          + (p[3] - q[3]) * (p[3] - q[3]))

\* coarse pass: the ids held by the buckets of the bounding cube
Candidates(grid, L, p, r) ==
    UNION { grid.index[L][k] : k \in BucketsInRadius(grid.index[L], grid.bucket_size, p, r) }

\* mutant: the boundary is left out
WithinRadius_Exclusive(d, r) == d < r

WithinRadius(d, r) == d <= r

\* fine pass: <<id, distance>> of the candidates within r of p
Hits(grid, L, p, r, excluded) ==
    { h \in { <<t, Distance(p, grid.tokens[t].coords[L])>> :
                t \in Candidates(grid, L, p, r) \ excluded } :
        WithinRadius(h[2], r) }

\* mutant: ties by descending token id
Before_DescendingIds(a, b) == a[2] < b[2] \/ (a[2] = b[2] /\ a[1] > b[1])

\* ascending distance, ties by ascending token id
Before(a, b) == a[2] < b[2] \/ (a[2] = b[2] /\ a[1] < b[1])

RECURSIVE SortHits(_)
SortHits(S) ==
    IF S = {} THEN <<>>
    ELSE LET m == CHOOSE h \in S : \A o \in S : o = h \/ Before(h, o)
         IN  <<m>> \o SortHits(S \ {m})

\* the first k of seq; nothing when k <= 0
Truncate(seq, k) ==
    IF k <= 0 THEN <<>>
    ELSE IF k >= Len(seq) THEN seq
    ELSE SubSeq(seq, 1, k)

GridFindNeighbors(grid, id, L, r, k) ==
    IF L \notin Layers THEN Err("InvalidLayer")
    ELSE IF r < 0 THEN Err("InvalidRadius")
    ELSE IF id \notin DOMAIN grid.tokens THEN Err("TokenNotFound")
    ELSE IF grid.tokens[id].coords[L] = Unset THEN Err("TokenNotIndexed")
    ELSE OkList(Truncate(SortHits(Hits(grid, L, grid.tokens[id].coords[L], r, {id})), k))

GridRangeQuery(grid, L, p, r) ==
    IF L \notin Layers THEN Err("InvalidLayer")
    ELSE IF r < 0 THEN Err("InvalidRadius")
    ELSE OkList(SortHits(Hits(grid, L, p, r, {})))

\* linear falloff: strength at distance 0, nothing from field_radius on.
\* Grid tokens hold field_radius in hundredths, the unit of distances, and
\* field_strength in 255ths; the contribution is in 255ths.
Contribution(tok, d) ==
    IF d >= tok.field_radius THEN 0
    ELSE (tok.field_strength * (tok.field_radius - d)) \div tok.field_radius

RECURSIVE SumContributions(_, _)
SumContributions(grid, hits) ==
    IF hits = {} THEN 0
    ELSE LET h == CHOOSE x \in hits : TRUE
         IN  Contribution(grid.tokens[h[1]], h[2]) + SumContributions(grid, hits \ {h})

ActiveHits(grid, L, p, r) ==
    { h \in Hits(grid, L, p, r, {}) : grid.tokens[h[1]].active }

GridFieldInfluence(grid, L, p, r) ==
    IF L \notin Layers THEN Err("InvalidLayer")
    ELSE IF r < 0 THEN Err("InvalidRadius")
    ELSE OkNumber(SumContributions(grid, ActiveHits(grid, L, p, r)))

\* volume of the sphere of radius r, in thousandths of a cubic unit
\* (r to the tenth of a unit, pi as 355/113)
SphereVolume(r) ==
    LET t == r \div 10 IN (((4 * t * t * t) \div 3) * 355) \div 113

\* active tokens per unit volume, in millionths
GridDensity(grid, L, p, r) ==
    IF L \notin Layers THEN Err("InvalidLayer")
    ELSE IF r < 0 THEN Err("InvalidRadius")
    ELSE IF r = 0 \/ SphereVolume(r) = 0 \/ ActiveHits(grid, L, p, r) = {} THEN OkNumber(0)
    ELSE OkNumber(((Cardinality(ActiveHits(grid, L, p, r)) * 100000000) \div SphereVolume(r)) * 10)

(***************************************************************************)
(* InMemoryGridStorage.  Each operator gives the map of grids after the    *)
(* call and what the call returns.  "if not grid" is the test for an id    *)
(* that _grids.get() does not know.                                        *)
(***************************************************************************)
Outcome(gs, r) == [grids |-> gs, ret |-> r]

\* mutants of the storage calls
remove_token_KeepsToken(gs, grid_id, token_id) ==
    IF grid_id \notin DOMAIN gs THEN Outcome(gs, OkFlag(FALSE))
    ELSE Outcome(gs, OkFlag(GridRemoved(gs[grid_id], token_id) # {}))

find_neighbors_SwapsArguments(gs, grid_id, token_id, space, radius, max_results) ==
    IF grid_id \notin DOMAIN gs THEN OkList(<<>>)
    ELSE GridFindNeighbors(gs[grid_id], token_id, space, max_results, radius)

find_neighbors_DefaultLimit(gs, grid_id, token_id, space, radius, max_results) ==
    IF grid_id \notin DOMAIN gs THEN OkList(<<>>)
    ELSE GridFindNeighbors(gs[grid_id], token_id, space, radius,
                           IF max_results = 0 THEN MaxTokenId ELSE max_results)

remove_token_ReportsGridFound(gs, grid_id, token_id) ==
    IF grid_id \notin DOMAIN gs THEN Outcome(gs, OkFlag(FALSE))
    ELSE Outcome([gs EXCEPT ![grid_id] = GridRemove(@, token_id)], OkFlag(TRUE))

find_neighbors_ClampsLayer(gs, grid_id, token_id, space, radius, max_results) ==
    IF grid_id \notin DOMAIN gs THEN OkList(<<>>)
    ELSE GridFindNeighbors(gs[grid_id], token_id,
                           IF space < 0 THEN 0 ELSE IF space >= NumLayers THEN NumLayers - 1
                           ELSE space,
                           radius, max_results)

find_neighbors_OneBasedLayer(gs, grid_id, token_id, space, radius, max_results) ==
    IF grid_id \notin DOMAIN gs THEN OkList(<<>>)
    ELSE GridFindNeighbors(gs[grid_id], token_id, space + 1, radius, max_results)

range_query_SwapsXY(gs, grid_id, space, p, radius) ==
    IF grid_id \notin DOMAIN gs THEN OkList(<<>>)
    ELSE GridRangeQuery(gs[grid_id], space, <<p[2], p[1], p[3]>>, radius)

\* mutant: a zero radius replaced by one unit
calculate_density_DefaultRadius(gs, grid_id, space, p, radius) ==
    IF grid_id \notin DOMAIN gs THEN OkNumber(0)
    ELSE GridDensity(gs[grid_id], space, p, IF radius = 0 THEN 100 ELSE radius)

\* mutant: the id taken from the number of grids
create_grid_CountsGrids(gs, next, config) ==
    [grids |-> Put(gs, Cardinality(DOMAIN gs) + 1, NewGrid(DefaultBucketSize)),
     next_grid_id |-> next + 1,
     ret |-> Cardinality(DOMAIN gs) + 1]

create_grid_ZeroBased(gs, next, config) ==
    [grids |-> Put(gs, next - 1, NewGrid(DefaultBucketSize)),
     next_grid_id |-> next + 1,
     ret |-> next - 1]

create_grid(gs, next, config) ==
    [grids |-> Put(gs, next, NewGrid(IF config = None THEN DefaultBucketSize
                                    ELSE (CHOOSE c \in config : TRUE).bucket_size)),
     next_grid_id |-> next + 1,
     ret |-> next]

\* mutant: True is reported, the grid is kept
delete_grid_KeepsGrid(gs, grid_id) ==
    Outcome(gs, OkFlag(grid_id \in DOMAIN gs))

delete_grid(gs, grid_id) ==
    IF grid_id \in DOMAIN gs
    THEN Outcome(Restrict(gs, DOMAIN gs \ {grid_id}), OkFlag(TRUE))
    ELSE Outcome(gs, OkFlag(FALSE))

\* get_grid: self._grids.get(grid_id), the grid or None
get_grid(gs, grid_id) == IF grid_id \in DOMAIN gs THEN {gs[grid_id]} ELSE None

\* the keys of a dict in the order of their insertion: every key of _grids is
\* the value of _next_grid_id when it was inserted
RECURSIVE KeysInOrder(_)
KeysInOrder(S) ==
    IF S = {} THEN <<>>
    ELSE LET m == CHOOSE x \in S : \A y \in S : x <= y
         IN  <<m>> \o KeysInOrder(S \ {m})

list_grids(gs) == OkIds(KeysInOrder(DOMAIN gs))

add_token(gs, grid_id, token) ==
    IF grid_id \notin DOMAIN gs THEN Outcome(gs, OkFlag(FALSE))
    ELSE Outcome([gs EXCEPT ![grid_id] = GridAdd(@, ToRustToken(token))], OkFlag(TRUE))

remove_token(gs, grid_id, token_id) ==
    IF grid_id \notin DOMAIN gs THEN Outcome(gs, OkFlag(FALSE))
    ELSE Outcome([gs EXCEPT ![grid_id] = GridRemove(@, token_id)],
                 OkFlag(GridRemoved(gs[grid_id], token_id) # {}))

find_neighbors(gs, grid_id, token_id, space, radius, max_results) ==
    IF grid_id \notin DOMAIN gs THEN OkList(<<>>)
    ELSE GridFindNeighbors(gs[grid_id], token_id, space, radius, max_results)

range_query(gs, grid_id, space, p, radius) ==
    IF grid_id \notin DOMAIN gs THEN OkList(<<>>)
    ELSE GridRangeQuery(gs[grid_id], space, p, radius)

calculate_field_influence(gs, grid_id, space, p, radius) ==
    IF grid_id \notin DOMAIN gs THEN OkNumber(0)
    ELSE GridFieldInfluence(gs[grid_id], space, p, radius)

calculate_density(gs, grid_id, space, p, radius) ==
    IF grid_id \notin DOMAIN gs THEN OkNumber(0)
    ELSE GridDensity(gs[grid_id], space, p, radius)

(***************************************************************************)
(* Actions: one call each.  result records the call.  XLocked is the body  *)
(* of method X under "with self._lock"; X is the whole call made while no   *)
(* other thread is in the storage.                                         *)
(***************************************************************************)
Origin == <<0, 0, 0>>

QueryOps == {"find_neighbors", "range_query", "calculate_field_influence", "calculate_density"}
PerGridOps == QueryOps \cup {"add_token", "remove_token"}

Call(op, g, id, space, p, r, k, ret) ==
    [op |-> op, grid_id |-> g, token_id |-> id, space |-> space, point |-> p,
     radius |-> r, max_results |-> k, status |-> ret.status,
     flag |-> ret.flag, list |-> ret.list, number |-> ret.number, ids |-> ret.ids,
     present |-> g \in DOMAIN grids /\ id \in DOMAIN grids[g].tokens,
     moved |-> FALSE]

AddTokenLocked(g, token) ==
    LET out == add_token(grids, g, token) IN
    /\ grids' = out.grids
    /\ added' = IF out.ret.flag THEN [added EXCEPT ![g] = Put(@, token.id, token)]
                                 ELSE added
    /\ result' = [Call("add_token", g, token.id, 0, Origin, 0, 0, out.ret)
                      EXCEPT !.moved = /\ g \in DOMAIN grids
                                       /\ token.id \in DOMAIN grids[g].tokens
                                       /\ grids[g].tokens[token.id].coords # token.coords]
    /\ UNCHANGED <<next_grid_id, issued, tokenStorageVars, apiVars>>

AddToken(g, token) == AddTokenLocked(g, token) /\ UNCHANGED threadVars

RemoveTokenLocked(g, id) ==
    LET out == remove_token(grids, g, id) IN
    /\ grids' = out.grids
    /\ added' = IF g \in DOMAIN added
                THEN [added EXCEPT ![g] = Restrict(@, DOMAIN @ \ {id})]
                ELSE added
    /\ result' = Call("remove_token", g, id, 0, Origin, 0, 0, out.ret)
    /\ UNCHANGED <<next_grid_id, issued, tokenStorageVars, apiVars>>

RemoveToken(g, id) == RemoveTokenLocked(g, id) /\ UNCHANGED threadVars

FindNeighborsLocked(g, id, space, r, k) ==
    /\ result' = Call("find_neighbors", g, id, space, Origin, r, k,
                      find_neighbors(grids, g, id, space, r, k))
    /\ UNCHANGED <<grids, next_grid_id, added, issued, tokenStorageVars, apiVars>>

FindNeighbors(g, id, space, r, k) == FindNeighborsLocked(g, id, space, r, k) /\ UNCHANGED threadVars

RangeQueryLocked(g, space, p, r) ==
    /\ result' = Call("range_query", g, 0, space, p, r, 0,
                      range_query(grids, g, space, p, r))
    /\ UNCHANGED <<grids, next_grid_id, added, issued, tokenStorageVars, apiVars>>

RangeQuery(g, space, p, r) == RangeQueryLocked(g, space, p, r) /\ UNCHANGED threadVars

CalculateFieldInfluenceLocked(g, space, p, r) ==
    /\ result' = Call("calculate_field_influence", g, 0, space, p, r, 0,
                      calculate_field_influence(grids, g, space, p, r))
    /\ UNCHANGED <<grids, next_grid_id, added, issued, tokenStorageVars, apiVars>>

CalculateFieldInfluence(g, space, p, r) == CalculateFieldInfluenceLocked(g, space, p, r) /\ UNCHANGED threadVars

CalculateDensityLocked(g, space, p, r) ==
    /\ result' = Call("calculate_density", g, 0, space, p, r, 0,
                      calculate_density(grids, g, space, p, r))
    /\ UNCHANGED <<grids, next_grid_id, added, issued, tokenStorageVars, apiVars>>

CalculateDensity(g, space, p, r) == CalculateDensityLocked(g, space, p, r) /\ UNCHANGED threadVars

(***************************************************************************)
(* Spec: one grid, created with the default configuration, and the tokens  *)
(* of the token storage (default weight, field_radius and field_strength,  *)
(* no flag set) added, re-added, removed and searched.                     *)
(***************************************************************************)
PointA == <<0, 0, 0>>
PointB == <<300, 400, 0>>
PointC == <<10000, 10000, 10000>>
PointN == <<-100, 0, 0>>
PointP == <<300, 0, 0>>

LastLayer == NumLayers - 1

At(L, p) == [NoCoords EXCEPT ![L] = p]
At2(L, p, M, q) == [NoCoords EXCEPT ![L] = p, ![M] = q]

CoordInputs ==
    { At(0, PointA), At(0, PointB), At2(0, PointN, LastLayer, PointA),
      At2(0, PointC, LastLayer, PointB), At(LastLayer, PointA) }

TokenInputs == { PyToken(id, c, 1000, 1000, FALSE) : id \in TokenIds, c \in CoordInputs }

\* a limit no result reaches
Unlimited == MaxTokenId

\* <<space, radius, max_results>>
FindInputs ==
    { <<0, 500, Unlimited>>, <<0, 490, Unlimited>>, <<0, 0, Unlimited>>,
      <<0, 500, 1>>, <<0, 500, 0>>, <<0, 500, -1>>, <<LastLayer, 500, Unlimited>> }

\* <<space, point, radius>>
RangeInputs ==
    { <<0, PointA, 500>>, <<0, PointA, 490>>, <<0, PointB, 500>>,
      <<0, PointP, 400>>, <<LastLayer, PointA, 500>> }

\* no call in progress
NoOwner == 0
NoThreads == lock = NoOwner /\ calls = EmptyMap

\* InMemoryTokenStorage.__init__
NoTokenStorage ==
    storage = EmptyMap /\ next_local_id = 1 /\ local_ids = <<>> /\ created = <<>>

\* RateLimitMiddleware.__init__ at time 0, no request yet
NoUser == <<"", "">>
NoResponse ==
    [path |-> "", user_id |-> NoUser, code |-> 0, error |-> "", limit |-> 0,
     remaining |-> 0, retry_after |-> 0, forwarded |-> FALSE, seq |-> 0,
     time |-> 0]

NoRateLimit ==
    /\ buckets = EmptyMap
    /\ bucket_objs = EmptyMap
    /\ next_instance = 1
    /\ last_access = EmptyMap
    /\ last_cleanup = 0
    /\ inflight = {}
    /\ response = NoResponse
    /\ admitted = EmptyMap

NoBucket == [capacity |-> 0, tokens |-> 0, last_update |-> 0]
NoCall == [op |-> "", ok |-> FALSE, remaining |-> 0, before |-> NoBucket, time |-> 0]
NoConsumers ==
    /\ consumers = EmptyMap
    /\ bucket_lock = NoOwner
    /\ outcomes = <<>>
    /\ last_call = NoCall

\* the health module when it is imported
AllUp ==
    [runtime |-> TRUE, count |-> "ok", get_grid |-> "grid", list_profiles |-> "ok",
     websocket |-> "ok"]
NoComponents ==
    [rust_core |-> "", token_storage |-> "", grid_storage |-> "", cdna_storage |-> "",
     websocket |-> ""]
NoHealthResponse ==
    [endpoint |-> "", code |-> 0, status |-> "", ready |-> FALSE, started |-> FALSE,
     reason |-> "", components |-> NoComponents, deps |-> AllUp, time |-> 0,
     complete_before |-> FALSE]
NoHealth ==
    /\ startup_complete = FALSE
    /\ deps = AllUp
    /\ health_response = NoHealthResponse

\* InMemoryCDNAStorage: the class and __init__ (memory.py:494-556). Scales
\* are in tenths.
BuiltinProfiles ==
    [explorer |-> <<10, 15, 12, 20, 30, 25, 20, 50>>,
     analyzer |-> <<10, 10, 10, 15, 100, 50, 30, 200>>,
     creative |-> <<10, 20, 30, 50, 80, 130, 210, 340>>,
     quarantine |-> <<10, 10, 10, 10, 20, 15, 10, 30>>]
ProfileIds == DOMAIN BuiltinProfiles

\* the list objects of the class, and the one list the configuration owns
ProfileList == [explorer |-> 1, analyzer |-> 2, creative |-> 3, quarantine |-> 4]
OwnList == 5

QuarantineTime == 300
ZeroMetrics == [memory_growth |-> 0, connection_breaks |-> 0, token_churn |-> 0]

NewConfig(t) == [profile |-> "explorer", dimension_scales |-> OwnList, timestamp |-> t]
NewQuarantine == [active |-> FALSE, time_left |-> QuarantineTime, metrics |-> ZeroMetrics]
NoSnapshot ==
    [config |-> NewConfig(0), scales |-> <<>>, history |-> <<>>,
     quarantine |-> NewQuarantine]
NoCDNAResult ==
    [op |-> "", profile_id |-> "", apply |-> FALSE, flag |-> FALSE, time |-> 0,
     before |-> NoSnapshot]

NoCDNA ==
    /\ PROFILES = ProfileList
    /\ lists = [r \in 1 .. OwnList |->
                   IF r = OwnList THEN BuiltinProfiles["explorer"]
                   ELSE BuiltinProfiles[CHOOSE p \in ProfileIds : ProfileList[p] = r]]
    /\ _config = NewConfig(0)
    /\ _history = <<>>
    /\ _quarantine = NewQuarantine
    /\ cdna_result = NoCDNAResult

\* the storages constructed, nobody constructing
NoSingleton ==
    /\ _instance = "made"
    /\ _initialized = TRUE
    /\ class_lock = NoOwner
    /\ ctor = EmptyMap

NoApi == now = 0 /\ NoRateLimit /\ NoConsumers /\ NoHealth /\ NoCDNA /\ NoSingleton

Init ==
    LET out == create_grid(EmptyMap, 1, None) IN
    /\ grids = out.grids
    /\ next_grid_id = out.next_grid_id
    /\ added = [g \in DOMAIN out.grids |-> EmptyMap]
    /\ result = Call("create_grid", out.ret, 0, 0, Origin, 0, 0, OkNumber(out.ret))
    /\ issued = <<out.ret>>
    /\ NoThreads
    /\ NoTokenStorage
    /\ NoApi

Next ==
    \/ \E g \in DOMAIN grids, token \in TokenInputs : AddToken(g, token)
    \/ \E g \in DOMAIN grids, id \in TokenIds : RemoveToken(g, id)
    \/ \E g \in DOMAIN grids, id \in TokenIds, q \in FindInputs :
          FindNeighbors(g, id, q[1], q[2], q[3])
    \/ \E g \in DOMAIN grids, q \in RangeInputs : RangeQuery(g, q[1], q[2], q[3])

Spec == Init /\ [][Next]_vars

(***************************************************************************)
(* SpecField: the same grid, with tokens that differ in field_radius,      *)
(* field_strength and the active flag, and the two aggregate queries.      *)
(***************************************************************************)
\* <<coordinates, field_radius, field_strength>>: 10.0 and 5.0 at the origin,
\* 2.505 and 1.0 at B
FieldInputs ==
    { <<At(0, PointA), 10000, 5000>>, <<At(0, PointB), 2505, 1000>> }

FieldTokenInputs ==
    { PyToken(id, f[1], f[2], f[3], act) :
        id \in TokenIds, f \in FieldInputs, act \in BOOLEAN }

\* the points at distance 0, 2, 5, 8, 10 and 12 from the origin, and B
ProbePoints ==
    { <<0, 0, 0>>, <<200, 0, 0>>, <<500, 0, 0>>, <<800, 0, 0>>, <<1000, 0, 0>>,
      <<1200, 0, 0>>, PointB }

ProbeRadii == {500, 2000}

\* <<space, point, radius>>
DensityInputs ==
    { <<0, PointA, 500>>, <<0, PointA, 490>>, <<0, PointA, 0>>, <<LastLayer, PointA, 500>> }

NextField ==
    \/ \E g \in DOMAIN grids, token \in FieldTokenInputs : AddToken(g, token)
    \/ \E g \in DOMAIN grids, id \in TokenIds : RemoveToken(g, id)
    \/ \E g \in DOMAIN grids, p \in ProbePoints, r \in ProbeRadii :
          CalculateFieldInfluence(g, 0, p, r)
    \/ \E g \in DOMAIN grids, q \in DensityInputs :
          CalculateDensity(g, q[1], q[2], q[3])
    \/ \E g \in DOMAIN grids, id \in TokenIds : FindNeighbors(g, id, 0, 500, Unlimited)
    \/ \E g \in DOMAIN grids : RangeQuery(g, 0, PointA, 500)

SpecField == Init /\ [][NextField]_vars

(***************************************************************************)
(* SpecManager: the storage from its construction; grids are created and   *)
(* deleted, and every call is also made for ids without a grid and with    *)
(* layers and radii out of range.                                          *)
(***************************************************************************)
CreateGridLocked(config) ==
    /\ LET out == create_grid(grids, next_grid_id, config) IN
       /\ grids' = out.grids
       /\ next_grid_id' = out.next_grid_id
       /\ added' = Put(added, out.ret, EmptyMap)
       /\ issued' = Append(issued, out.ret)
       /\ result' = Call("create_grid", out.ret, 0, 0, Origin, 0, 0, OkNumber(out.ret))
    /\ UNCHANGED <<tokenStorageVars, apiVars>>

CreateGrid(config) ==
    next_grid_id <= MaxGridId /\ CreateGridLocked(config) /\ UNCHANGED threadVars

DeleteGridLocked(g) ==
    LET out == delete_grid(grids, g) IN
    /\ grids' = out.grids
    /\ added' = IF out.ret.flag THEN Restrict(added, DOMAIN added \ {g}) ELSE added
    /\ result' = Call("delete_grid", g, 0, 0, Origin, 0, 0, out.ret)
    /\ UNCHANGED <<next_grid_id, issued, tokenStorageVars, apiVars>>

DeleteGrid(g) == DeleteGridLocked(g) /\ UNCHANGED threadVars

ListGridsLocked ==
    /\ result' = Call("list_grids", 0, 0, 0, Origin, 0, 0, list_grids(grids))
    /\ UNCHANGED <<grids, next_grid_id, added, issued, tokenStorageVars, apiVars>>

ListGrids == ListGridsLocked /\ UNCHANGED threadVars

GridIds == 1 .. MaxGridId

ConfigInputs == { None, {[bucket_size |-> 500]} }

ManagerTokens ==
    { PyToken(1, At(0, PointA), 1000, 1000, TRUE), PyToken(2, At(0, PointB), 1000, 1000, TRUE) }

ManagerTokenIds == { token.id : token \in ManagerTokens }

\* <<space, radius>>
QueryInputs ==
    { <<0, 500>>, <<NumLayers, 500>>, <<-1, 500>>, <<0, -1>>, <<NumLayers, -1>> }

InitManager ==
    /\ grids = EmptyMap
    /\ next_grid_id = 1
    /\ added = EmptyMap
    /\ issued = <<>>
    /\ result = Call("__init__", 0, 0, 0, Origin, 0, 0, OkFlag(TRUE))
    /\ NoThreads
    /\ NoTokenStorage
    /\ NoApi

NextManager ==
    \/ \E config \in ConfigInputs : CreateGrid(config)
    \/ \E g \in GridIds : DeleteGrid(g)
    \/ ListGrids
    \/ \E g \in GridIds, token \in ManagerTokens : AddToken(g, token)
    \/ \E g \in GridIds, id \in ManagerTokenIds : RemoveToken(g, id)
    \/ \E g \in GridIds, id \in ManagerTokenIds, q \in QueryInputs :
          FindNeighbors(g, id, q[1], q[2], Unlimited)
    \/ \E g \in GridIds, q \in QueryInputs : RangeQuery(g, q[1], PointA, q[2])
    \/ \E g \in GridIds, q \in QueryInputs : CalculateFieldInfluence(g, q[1], PointA, q[2])
    \/ \E g \in GridIds, q \in QueryInputs : CalculateDensity(g, q[1], PointA, q[2])

SpecManager == InitManager /\ [][NextManager]_vars

(***************************************************************************)
(* SpecThreads: threads in the storage.  Every method takes the one lock   *)
(* of the storage for its whole body ("with self._lock").  A create        *)
(* request of the grid router is two storage calls: list_grids, whose      *)
(* length is compared with the maximum instance count, then create_grid.   *)
(***************************************************************************)
Threads == 1 .. NumThreads

\* a thread outside the storage
Idle == [phase |-> "idle", op |-> "", grid_id |-> 0, seen |-> {}]

\* mutant: the lock excludes nobody
CanAcquire_Always(l, t) == TRUE

\* threading.RLock: free, or held by the thread itself
CanAcquire(l, t) == l = NoOwner \/ l = t

\* the grid router: a create request goes on when the grids listed are fewer
\* than the maximum instance count
Admits(ids) == Len(ids) < MaxInstances

ThreadToken == PyToken(1, At(0, PointA), 1000, 1000, TRUE)

ThreadOps == PerGridOps \cup {"delete_grid"}

\* the threads in a create request
Creating == { t \in Threads : calls[t].op \in {"create_request", "create_grid"} }

\* a thread calls a per-grid method or delete_grid
Request(t, op, g) ==
    /\ calls[t].phase = "idle"
    /\ calls' = [calls EXCEPT ![t] = [phase |-> "waiting", op |-> op, grid_id |-> g, seen |-> {}]]
    /\ UNCHANGED <<grids, next_grid_id, added, result, issued, lock, tokenStorageVars, apiVars>>

\* a create request arrives at the router, which calls list_grids
RequestCreate(t) ==
    /\ calls[t].phase = "idle"
    /\ next_grid_id + Cardinality(Creating) <= MaxInstances + 1
    /\ calls' = [calls EXCEPT ![t] = [phase |-> "waiting", op |-> "create_request",
                                       grid_id |-> 0, seen |-> {}]]
    /\ UNCHANGED <<grids, next_grid_id, added, result, issued, lock, tokenStorageVars, apiVars>>

\* with self._lock: the thread gets the lock; seen is the grid the call finds
Enter(t) ==
    /\ calls[t].phase = "waiting"
    /\ CanAcquire(lock, t)
    /\ lock' = t
    /\ calls' = [calls EXCEPT ![t].phase = "running",
                              ![t].seen = IF calls[t].grid_id \in DOMAIN grids
                                          THEN {grids[calls[t].grid_id]} ELSE {}]
    /\ UNCHANGED <<grids, next_grid_id, added, result, issued, tokenStorageVars, apiVars>>

\* the answer of the router to the list of grids: the request is rejected, or
\* it goes on to create_grid
CheckInstancesLocked(t) ==
    /\ result' = Call("create_request", 0, 0, 0, Origin, 0, 0,
                      IF Admits(list_grids(grids).ids) THEN list_grids(grids)
                      ELSE Err("MaxInstancesReached"))
    /\ UNCHANGED <<grids, next_grid_id, added, issued, tokenStorageVars, apiVars>>

\* the body of the method, and the lock released at its end
Leave(t) ==
    LET c == calls[t] IN
    /\ c.phase = "running"
    /\ \/ c.op = "add_token" /\ AddTokenLocked(c.grid_id, ThreadToken)
       \/ c.op = "remove_token" /\ RemoveTokenLocked(c.grid_id, ThreadToken.id)
       \/ c.op = "find_neighbors"
              /\ FindNeighborsLocked(c.grid_id, ThreadToken.id, 0, 500, Unlimited)
       \/ c.op = "range_query" /\ RangeQueryLocked(c.grid_id, 0, PointA, 500)
       \/ c.op = "calculate_field_influence"
              /\ CalculateFieldInfluenceLocked(c.grid_id, 0, PointA, 500)
       \/ c.op = "calculate_density" /\ CalculateDensityLocked(c.grid_id, 0, PointA, 500)
       \/ c.op = "delete_grid" /\ DeleteGridLocked(c.grid_id)
       \/ c.op = "create_grid" /\ CreateGridLocked(None)
       \/ c.op = "create_request" /\ CheckInstancesLocked(t)
    /\ lock' = NoOwner
    /\ calls' = [calls EXCEPT ![t] =
                    IF c.op = "create_request" /\ Admits(list_grids(grids).ids)
                    THEN [phase |-> "waiting", op |-> "create_grid", grid_id |-> 0, seen |-> {}]
                    ELSE Idle]

InitThreads ==
    /\ grids = EmptyMap
    /\ next_grid_id = 1
    /\ added = EmptyMap
    /\ issued = <<>>
    /\ result = Call("__init__", 0, 0, 0, Origin, 0, 0, OkFlag(TRUE))
    /\ lock = NoOwner
    /\ calls = [t \in Threads |-> Idle]
    /\ NoTokenStorage
    /\ NoApi

NextThreads ==
    \/ \E t \in Threads, op \in ThreadOps, g \in 1 .. MaxInstances : Request(t, op, g)
    \/ \E t \in Threads : RequestCreate(t)
    \/ \E t \in Threads : Enter(t)
    \/ \E t \in Threads : Leave(t)

SpecThreads == InitThreads /\ [][NextThreads]_vars

(***************************************************************************)
(* InMemoryTokenStorage and SpecTokens: tokens are created, updated,       *)
(* deleted and cleared.  token_data is a record whose optional entries are *)
(* sets ({} when the key is absent).                                       *)
(***************************************************************************)
\* create_token_id: local_id in the low bits, entity_type above it, domain
\* above that (0x01000001 is entity_type 1, domain 0, local_id 1)
CreateTokenId(local_id, entity_type, domain) ==
    (domain * (2 ^ EntityTypeBits) + entity_type) * (2 ^ LocalIdBits)
        + (local_id % (2 ^ LocalIdBits))

LocalIdOf(id) == id % (2 ^ LocalIdBits)

\* token_data.get(key, default)
GetOr(entry, default) == IF entry = None THEN default ELSE CHOOSE v \in entry : TRUE

TokenData(entity_type, weight, coords) ==
    [entity_type |-> entity_type, domain |-> None, weight |-> weight,
     field_radius |-> None, field_strength |-> None, persistent |-> None,
     coords |-> coords]

token_create(st, next, data) ==
    LET token_id == CreateTokenId(next, GetOr(data.entity_type, 0), GetOr(data.domain, 0))
        token == [id |-> token_id,
                  coords |-> GetOr(data.coords, NoCoords),
                  weight |-> GetOr(data.weight, 500),
                  field_radius |-> GetOr(data.field_radius, 1000),
                  field_strength |-> GetOr(data.field_strength, 1000),
                  active |-> FALSE,
                  persistent |-> GetOr(data.persistent, FALSE)]
    IN  [storage |-> Put(st, token_id, token), next_local_id |-> next + 1, ret |-> {token}]

\* the token updated, or None
token_update(st, token_id, data) ==
    IF token_id \notin DOMAIN st THEN [storage |-> st, ret |-> None]
    ELSE LET old == st[token_id]
             token == [old EXCEPT
                          !.weight = GetOr(data.weight, old.weight),
                          !.field_radius = GetOr(data.field_radius, old.field_radius),
                          !.field_strength = GetOr(data.field_strength, old.field_strength),
                          !.coords = [L \in Layers |->
                                         IF GetOr(data.coords, NoCoords)[L] # Unset
                                         THEN GetOr(data.coords, NoCoords)[L]
                                         ELSE old.coords[L]]]
         IN  [storage |-> Put(st, token_id, token), ret |-> {token}]

token_delete_AlwaysTrue(st, token_id) ==
    [storage |-> Restrict(st, DOMAIN st \ {token_id}), ret |-> TRUE]

token_delete(st, token_id) ==
    IF token_id \in DOMAIN st
    THEN [storage |-> Restrict(st, DOMAIN st \ {token_id}), ret |-> TRUE]
    ELSE [storage |-> st, ret |-> FALSE]

token_clear(st, next) ==
    [storage |-> EmptyMap, next_local_id |-> 1, ret |-> Cardinality(DOMAIN st)]

token_count(st) == Cardinality(DOMAIN st)

TokenCreate(data) ==
    /\ Len(local_ids) < MaxCreates
    /\ LET out == token_create(storage, next_local_id, data)
           token == CHOOSE t \in out.ret : TRUE
       IN  /\ storage' = out.storage
           /\ next_local_id' = out.next_local_id
           /\ local_ids' = Append(local_ids, LocalIdOf(token.id))
           /\ created' = Append(created, token.id)
           /\ result' = Call("create", 0, token.id, 0, Origin, 0, 0, OkNumber(token.id))
    /\ UNCHANGED <<grids, next_grid_id, added, issued, threadVars, apiVars>>

TokenUpdate(token_id, data) ==
    LET out == token_update(storage, token_id, data) IN
    /\ storage' = out.storage
    /\ result' = Call("update", 0, token_id, 0, Origin, 0, 0, OkFlag(out.ret # None))
    /\ UNCHANGED <<next_local_id, local_ids, created, grids, next_grid_id, added, issued, threadVars, apiVars>>

TokenDelete(token_id) ==
    LET out == token_delete(storage, token_id) IN
    /\ storage' = out.storage
    /\ result' = Call("delete", 0, token_id, 0, Origin, 0, 0, OkFlag(out.ret))
    /\ created' = SelectSeq(created, LAMBDA id : id # token_id)
    /\ UNCHANGED <<next_local_id, local_ids, grids, next_grid_id, added, issued, threadVars, apiVars>>

TokenClear ==
    LET out == token_clear(storage, next_local_id) IN
    /\ storage' = out.storage
    /\ next_local_id' = out.next_local_id
    /\ result' = Call("clear", 0, 0, 0, Origin, 0, 0, OkNumber(out.ret))
    /\ created' = <<>>
    /\ UNCHANGED <<local_ids, grids, next_grid_id, added, issued, threadVars, apiVars>>

TokenCount ==
    /\ result' = Call("count", 0, 0, 0, Origin, 0, 0, OkNumber(token_count(storage)))
    /\ UNCHANGED <<tokenStorageVars, grids, next_grid_id, added, issued, threadVars, apiVars>>

EntityTypes == {0, 1}

CreateInputs ==
    { TokenData({e}, None, c) : e \in EntityTypes, c \in {None, {At(0, PointA)}} }
        \cup { TokenData(None, {250}, None) }

UpdateInputs == { TokenData(None, {750}, None), TokenData(None, None, {At(0, PointB)}) }

\* the ids create can return
StorageIds == { CreateTokenId(l, e, 0) : l \in 1 .. MaxCreates, e \in EntityTypes }

InitTokens ==
    /\ NoTokenStorage
    /\ NoApi
    /\ grids = EmptyMap
    /\ next_grid_id = 1
    /\ added = EmptyMap
    /\ issued = <<>>
    /\ result = Call("__init__", 0, 0, 0, Origin, 0, 0, OkFlag(TRUE))
    /\ NoThreads

NextTokens ==
    \/ \E data \in CreateInputs : TokenCreate(data)
    \/ \E id \in StorageIds, data \in UpdateInputs : TokenUpdate(id, data)
    \/ \E id \in StorageIds : TokenDelete(id)
    \/ TokenClear
    \/ TokenCount

SpecTokens == InitTokens /\ [][NextTokens]_vars

(***************************************************************************)
(* TokenBucket (api/middlewares/rate_limit.py)                             *)
(* Time is counted in ticks; tokens are counted in ticks as well, one      *)
(* token being TicksPerSecond of them (the refill is one token a second).  *)
(***************************************************************************)
Min(a, b) == IF a <= b THEN a ELSE b

OneToken == TicksPerSecond

\* TokenBucket.__init__ at time t
TokenBucket(rate_limit, t) ==
    [capacity |-> rate_limit, tokens |-> rate_limit * OneToken, last_update |-> t]

Refill_PerMinute(b, t) ==
    [b EXCEPT !.tokens = Min(b.capacity * OneToken,
                             b.tokens + TruncDiv((t - b.last_update) * b.capacity,
                                                 WindowSeconds)),
              !.last_update = t]

Refill_Uncapped(b, t) ==
    [b EXCEPT !.tokens = b.tokens + (t - b.last_update), !.last_update = t]

\* consume, the refill: tokens = min(capacity, tokens + elapsed); last_update = now
Refill(b, t) ==
    [b EXCEPT !.tokens = Min(b.capacity * OneToken, b.tokens + (t - b.last_update)),
              !.last_update = t]

\* consume, the test: tokens >= 1.0
HasToken_Always(b) == TRUE

HasToken(b) == b.tokens >= OneToken

\* consume, the decrement: tokens -= 1.0
Take(b) == [b EXCEPT !.tokens = @ - OneToken]

\* consume as one step (its body runs under the lock of the bucket)
consume(b, t) ==
    LET refilled == Refill(b, t)
    IN  IF HasToken(refilled) THEN [bucket |-> Take(refilled), ok |-> TRUE]
                              ELSE [bucket |-> refilled, ok |-> FALSE]

get_remaining(b, t) ==
    TruncDiv(Min(b.capacity * OneToken, b.tokens + (t - b.last_update)), OneToken)

\* get_remaining, the bucket afterwards: tokens is a local, nothing is assigned
after_get_remaining(b, t) == b

(***************************************************************************)
(* TokenBucket.consume called by threads: the steps of one call, with      *)
(* nothing else running and the clock standing still                       *)
(***************************************************************************)
Consumers == 1 .. NumConsumers
TheBucket == 1

storageVars ==
    <<grids, next_grid_id, added, result, issued, threadVars, tokenStorageVars>>

\* no grid storage and no token storage in use
NoStorage ==
    /\ grids = EmptyMap
    /\ next_grid_id = 1
    /\ added = EmptyMap
    /\ issued = <<>>
    /\ result = Call("__init__", 0, 0, 0, Origin, 0, 0, OkFlag(TRUE))
    /\ NoThreads
    /\ NoTokenStorage

LockFree_Always(l) == TRUE

\* threading.Lock: acquired by one thread at a time
LockFree(l) == l = NoOwner

InConsume == { t \in Consumers : consumers[t] # "idle" }

bucketFrame ==
    <<storageVars, now, buckets, next_instance, last_access, last_cleanup,
      inflight, response, admitted, healthVars, last_call, cdnaVars, singletonVars>>

\* a thread calls consume()
ConsumeCall(t) ==
    /\ consumers[t] = "idle"
    /\ Len(outcomes) + Cardinality(InConsume) < MaxConsumes
    /\ consumers' = [consumers EXCEPT ![t] = "waiting"]
    /\ UNCHANGED <<bucket_objs, bucket_lock, outcomes, bucketFrame>>

\* with self.lock: ; the refill
ConsumeEnter(t) ==
    /\ consumers[t] = "waiting"
    /\ LockFree(bucket_lock)
    /\ bucket_lock' = t
    /\ bucket_objs' = [bucket_objs EXCEPT ![TheBucket] = Refill(@, now)]
    /\ consumers' = [consumers EXCEPT ![t] = "refilled"]
    /\ UNCHANGED <<outcomes, bucketFrame>>

\* if self.tokens >= 1.0 ; otherwise return False
ConsumeCheck(t) ==
    /\ consumers[t] = "refilled"
    /\ IF HasToken(bucket_objs[TheBucket])
       THEN /\ consumers' = [consumers EXCEPT ![t] = "taking"]
            /\ UNCHANGED <<bucket_lock, outcomes>>
       ELSE /\ consumers' = [consumers EXCEPT ![t] = "idle"]
            /\ bucket_lock' = NoOwner
            /\ outcomes' = Append(outcomes, [thread |-> t, ok |-> FALSE])
    /\ UNCHANGED <<bucket_objs, bucketFrame>>

\* self.tokens -= 1.0 ; return True
ConsumeTake(t) ==
    /\ consumers[t] = "taking"
    /\ bucket_objs' = [bucket_objs EXCEPT ![TheBucket] = Take(@)]
    /\ consumers' = [consumers EXCEPT ![t] = "idle"]
    /\ bucket_lock' = NoOwner
    /\ outcomes' = Append(outcomes, [thread |-> t, ok |-> TRUE])
    /\ UNCHANGED bucketFrame

InitBucket ==
    /\ NoStorage
    /\ now = 0
    /\ NoHealth
    /\ NoCDNA
    /\ NoSingleton
    /\ \E n \in 1 .. BucketCapacity :
           bucket_objs = Put(EmptyMap, TheBucket, TokenBucket(n, 0))
    /\ buckets = EmptyMap
    /\ next_instance = 2
    /\ last_access = EmptyMap
    /\ last_cleanup = 0
    /\ inflight = {}
    /\ response = NoResponse
    /\ admitted = EmptyMap
    /\ consumers = [t \in Consumers |-> "idle"]
    /\ bucket_lock = NoOwner
    /\ outcomes = <<>>
    /\ last_call = NoCall

NextBucket ==
    \/ \E t \in Consumers : ConsumeCall(t)
    \/ \E t \in Consumers : ConsumeEnter(t)
    \/ \E t \in Consumers : ConsumeCheck(t)
    \/ \E t \in Consumers : ConsumeTake(t)

SpecBucket == InitBucket /\ [][NextBucket]_vars

(***************************************************************************)
(* RateLimitMiddleware (api/middlewares/rate_limit.py)                     *)
(* A user id is a string, kept as <<prefix, rest>> so that startswith can  *)
(* be asked of it; an API key is kept as <<first 8 characters, rest>>.     *)
(***************************************************************************)
ExemptPaths_HealthOnly == {"/health"}

\* the paths dispatch does not rate limit
ExemptPaths == {"/health", "/api/v1/health"}

Paths == {"/health", "/api/v1/health", "/api/v1/tokens"}

Alice == <<"", "alice">>
KeyA == <<"ng_test_", "A">>
KeyB == <<"ng_test_", "B">>
Host1 == "10.0.0.1"

\* the clients: an authenticated user, two API keys, an address
Clients ==
    { [user |-> {Alice}, api_key |-> None, host |-> {Host1}],
      [user |-> None, api_key |-> {KeyA}, host |-> {Host1}],
      [user |-> None, api_key |-> {KeyB}, host |-> {Host1}],
      [user |-> None, api_key |-> None, host |-> {Host1}] }

Requests ==
    { [path |-> p, user |-> c.user, api_key |-> c.api_key, host |-> c.host] :
          p \in Paths, c \in Clients }

TheOne(S) == CHOOSE v \in S : TRUE

get_user_id(request) ==
    IF request.user # None THEN TheOne(request.user)
    ELSE IF request.api_key # None THEN <<"apikey_", TheOne(request.api_key)[1]>>
    ELSE <<"ip_", IF request.host # None THEN TheOne(request.host) ELSE "unknown">>

\* get_bucket, the limit a new bucket gets
rate_limit_of(user_id) ==
    IF user_id[1] = "ip_" THEN IpRateLimit ELSE DefaultRateLimit

\* get_bucket: the instance it returns, and the middleware afterwards
get_bucket(user_id, t) ==
    LET fresh == user_id \notin DOMAIN buckets
        instance == IF fresh THEN next_instance ELSE buckets[user_id]
    IN  [instance |-> instance,
         buckets |-> IF fresh THEN Put(buckets, user_id, instance) ELSE buckets,
         objs |-> IF fresh
                  THEN Put(bucket_objs, instance, TokenBucket(rate_limit_of(user_id), t))
                  ELSE bucket_objs,
         next_instance |-> IF fresh THEN next_instance + 1 ELSE next_instance,
         last_access |-> Put(last_access, user_id, t)]

IntervalTicks == CleanupInterval * TicksPerSecond

Expired_AtInterval(last_time, t) == t - last_time >= IntervalTicks

Expired_AnyIdle(last_time, t) == t - last_time > 0

\* cleanup_old_buckets, the test of one bucket
Expired(last_time, t) == t - last_time > IntervalTicks

\* cleanup_old_buckets on the dictionaries bs and la at time t
cleanup_old_buckets(bs, la, lc, t) ==
    IF t - lc < IntervalTicks
    THEN [buckets |-> bs, last_access |-> la, last_cleanup |-> lc]
    ELSE LET expired == { u \in DOMAIN la : Expired(la[u], t) }
         IN  [buckets |-> Restrict(bs, DOMAIN bs \ expired),
              last_access |-> Restrict(la, DOMAIN la \ expired),
              last_cleanup |-> t]

\* the instances something still refers to
Referenced(bs, fl) == { bs[u] : u \in DOMAIN bs } \cup { f.instance : f \in fl }

NoHistory == [times |-> <<>>, count |-> 0, last_time |-> 0, last_code |-> 0, instance |-> 0]
HistoryOf(user_id) ==
    IF user_id \in DOMAIN admitted THEN admitted[user_id] ELSE NoHistory

RECURSIVE SumCounts(_)
SumCounts(S) ==
    IF S = {} THEN 0
    ELSE LET u == CHOOSE x \in S : TRUE IN admitted[u].count + SumCounts(S \ {u})

rateFrame == <<storageVars, bucketVars, healthVars, cdnaVars, singletonVars>>

Tick ==
    /\ now < MaxTime
    /\ now' = now + 1
    /\ UNCHANGED <<rateLimitVars, rateFrame>>

\* dispatch of a request to a health path: return await call_next(request)
DispatchExempt(request) ==
    /\ request.path \in ExemptPaths
    /\ response' = [NoResponse EXCEPT !.path = request.path, !.code = 200,
                                      !.forwarded = TRUE, !.time = now]
    /\ UNCHANGED <<buckets, bucket_objs, next_instance, last_access, last_cleanup,
                   inflight, admitted>>

\* dispatch up to the 429, or up to await call_next(request)
DispatchLimited(request) ==
    /\ request.path \notin ExemptPaths
    /\ SumCounts(DOMAIN admitted) < MaxRequests
    /\ Cardinality(inflight) < MaxInflight
    /\ LET user_id == get_user_id(request)
           got == get_bucket(user_id, now)
           out == consume(got.objs[got.instance], now)
           h == HistoryOf(user_id)
       IN  /\ buckets' = got.buckets
           /\ bucket_objs' = [got.objs EXCEPT ![got.instance] = out.bucket]
           /\ next_instance' = got.next_instance
           /\ last_access' = got.last_access
           /\ admitted' = Put(admitted, user_id,
                  [times |-> IF out.ok THEN Append(h.times, now) ELSE h.times,
                   count |-> h.count + 1,
                   last_time |-> now,
                   last_code |-> IF out.ok THEN 200 ELSE 429,
                   instance |-> got.instance])
           /\ IF out.ok
              THEN /\ inflight' = inflight \cup
                          { [request |-> request, user_id |-> user_id,
                             instance |-> got.instance, seq |-> h.count + 1] }
                   /\ UNCHANGED response
              ELSE /\ response' =
                          [path |-> request.path, user_id |-> user_id, code |-> 429,
                           error |-> "RATE_LIMIT_EXCEEDED",
                           limit |-> out.bucket.capacity,
                           remaining |-> get_remaining(out.bucket, now),
                           retry_after |-> RetryAfterSeconds, forwarded |-> FALSE,
                           seq |-> h.count + 1, time |-> now]
                   /\ UNCHANGED inflight
    /\ UNCHANGED last_cleanup

Dispatch(request) ==
    /\ DispatchExempt(request) \/ DispatchLimited(request)
    /\ UNCHANGED <<now, rateFrame>>

\* dispatch after call_next: the headers, then cleanup_old_buckets
Finish(f) ==
    /\ f \in inflight
    /\ response' =
           [path |-> f.request.path, user_id |-> f.user_id, code |-> 200,
            error |-> "", limit |-> bucket_objs[f.instance].capacity,
            remaining |-> get_remaining(bucket_objs[f.instance], now),
            retry_after |-> 0, forwarded |-> TRUE, seq |-> f.seq, time |-> now]
    /\ LET after == cleanup_old_buckets(buckets, last_access, last_cleanup, now)
       IN  /\ buckets' = after.buckets
           /\ last_access' = after.last_access
           /\ last_cleanup' = after.last_cleanup
           /\ inflight' = inflight \ {f}
           /\ bucket_objs' = Restrict(bucket_objs, Referenced(after.buckets, inflight \ {f}))
    /\ UNCHANGED <<next_instance, admitted, now, rateFrame>>

\* cleanup_old_buckets called on its own
CleanupOldBuckets ==
    /\ LET after == cleanup_old_buckets(buckets, last_access, last_cleanup, now)
       IN  /\ buckets' = after.buckets
           /\ last_access' = after.last_access
           /\ last_cleanup' = after.last_cleanup
           /\ bucket_objs' = Restrict(bucket_objs, Referenced(after.buckets, inflight))
    /\ UNCHANGED <<next_instance, inflight, response, admitted, now, rateFrame>>

InitRate ==
    /\ NoStorage
    /\ NoApi

NextRate ==
    \/ Tick
    \/ \E request \in Requests : Dispatch(request)
    \/ \E f \in inflight : Finish(f)
    \/ CleanupOldBuckets

SpecRate == InitRate /\ [][NextRate]_vars

(***************************************************************************)
(* The health router (api/routers/health.py)                               *)
(* The runtime and the storages are given to the endpoints by the          *)
(* application; deps says what each of them does when it is called.        *)
(***************************************************************************)
DepsStates ==
    [runtime : BOOLEAN, count : {"ok", "raises"}, get_grid : {"grid", "none", "raises"},
     list_profiles : {"ok", "raises"}, websocket : {"ok", "raises"}]

MinStartupTicks == MinStartupTime * TicksPerSecond

\* uptime = time.time() - _start_time, the module imported at time 0
Uptime == now

grid_ready_NoneIsOk(d) == IF d.get_grid = "raises" THEN "error" ELSE "ok"

\* readiness_check, the checks
runtime_ready(d) == IF d.runtime THEN "ok" ELSE "not_initialized"
token_storage_ready(d) == IF d.count = "ok" THEN "ok" ELSE "error"
grid_ready(d) ==
    IF d.get_grid = "raises" THEN "error"
    ELSE IF d.get_grid = "grid" THEN "ok" ELSE "not_ready"

_check_component_health(d) ==
    [rust_core |-> IF d.runtime THEN "healthy" ELSE "unavailable",
     token_storage |-> IF d.count = "ok" THEN "healthy" ELSE "error",
     grid_storage |-> IF d.get_grid = "raises" THEN "error"
                      ELSE IF d.get_grid = "grid" THEN "healthy" ELSE "initializing",
     cdna_storage |-> IF d.list_profiles = "ok" THEN "healthy" ELSE "error",
     websocket |-> IF d.websocket = "ok" THEN "healthy" ELSE "error"]

ComponentNames == DOMAIN NoComponents
CountStatus(components, status) ==
    Cardinality({ c \in ComponentNames : components[c] = status })

\* health_check, the overall status
health_status(components) ==
    IF CountStatus(components, "error") > 0 THEN "unhealthy"
    ELSE IF CountStatus(components, "unavailable") > 0 THEN "degraded"
    ELSE "healthy"

liveness_check_WhenReady ==
    IF startup_complete THEN [code |-> 200, status |-> "alive"]
                        ELSE [code |-> 503, status |-> ""]

\* liveness_check, what it returns
liveness_check == [code |-> 200, status |-> "alive"]

\* a response of the endpoint at this moment
Answer(endpoint) ==
    [NoHealthResponse EXCEPT !.endpoint = endpoint, !.deps = deps, !.time = now,
                             !.complete_before = startup_complete]

healthFrame == <<storageVars, now, rateLimitVars, bucketVars, cdnaVars, singletonVars>>

HealthCheck ==
    /\ LET components == _check_component_health(deps)
       IN  health_response' =
               [Answer("/health") EXCEPT !.code = 200,
                                         !.status = health_status(components),
                                         !.components = components]
    /\ UNCHANGED <<startup_complete, deps, healthFrame>>

LivenessCheck ==
    /\ health_response' =
           [Answer("/health/live") EXCEPT !.code = liveness_check.code,
                                          !.status = liveness_check.status]
    /\ UNCHANGED <<startup_complete, deps, healthFrame>>

ComponentsCheck ==
    /\ health_response' =
           [Answer("/health/components") EXCEPT
                !.code = 200, !.components = _check_component_health(deps)]
    /\ UNCHANGED <<startup_complete, deps, healthFrame>>

\* readiness_check with the dependencies d injected
readiness_check(d) ==
    IF Uptime < MinStartupTicks /\ ~startup_complete
    THEN /\ health_response' =
                [Answer("/health/ready") EXCEPT !.code = 503, !.deps = d,
                                                !.reason = "startup_in_progress"]
         /\ UNCHANGED startup_complete
    ELSE LET ready == /\ runtime_ready(d) = "ok"
                      /\ token_storage_ready(d) = "ok"
                      /\ grid_ready(d) = "ok"
         IN  IF ready
             THEN /\ startup_complete' = TRUE
                  /\ health_response' =
                         [Answer("/health/ready") EXCEPT !.code = 200, !.deps = d,
                                                         !.ready = TRUE]
             ELSE /\ health_response' =
                         [Answer("/health/ready") EXCEPT !.code = 503, !.deps = d]
                  /\ UNCHANGED startup_complete

ReadinessCheck ==
    /\ readiness_check(deps)
    /\ UNCHANGED <<deps, healthFrame>>

StartupCheck_OnceStarted ==
    /\ IF startup_complete \/ (deps.count = "ok" /\ deps.runtime /\ Uptime >= MinStartupTicks)
       THEN /\ startup_complete' = TRUE
            /\ health_response' =
                   [Answer("/health/startup") EXCEPT !.code = 200, !.started = TRUE]
       ELSE /\ health_response' =
                   [Answer("/health/startup") EXCEPT
                        !.code = 503, !.reason = "initialization_in_progress"]
            /\ UNCHANGED startup_complete
    /\ UNCHANGED <<deps, healthFrame>>

StartupCheck ==
    /\ IF deps.count = "raises"
       THEN /\ health_response' =
                   [Answer("/health/startup") EXCEPT !.code = 503, !.reason = "error"]
            /\ UNCHANGED startup_complete
       ELSE IF deps.runtime /\ Uptime >= MinStartupTicks
       THEN /\ startup_complete' = TRUE
            /\ health_response' =
                   [Answer("/health/startup") EXCEPT !.code = 200, !.started = TRUE]
       ELSE /\ health_response' =
                   [Answer("/health/startup") EXCEPT
                        !.code = 503, !.reason = "initialization_in_progress"]
            /\ UNCHANGED startup_complete
    /\ UNCHANGED <<deps, healthFrame>>

\* one of the dependencies starts or stops working
DepsChange(d) ==
    /\ Cardinality({ k \in DOMAIN deps : d[k] # deps[k] }) = 1
    /\ deps' = d
    /\ UNCHANGED <<startup_complete, health_response, healthFrame>>

InitHealth ==
    /\ NoStorage
    /\ now = 0
    /\ NoRateLimit
    /\ NoConsumers
    /\ NoCDNA
    /\ NoSingleton
    /\ startup_complete = FALSE
    /\ deps \in DepsStates
    /\ health_response = NoHealthResponse

NextHealth ==
    \/ Tick
    \/ \E d \in DepsStates : DepsChange(d)
    \/ HealthCheck
    \/ LivenessCheck
    \/ ComponentsCheck
    \/ ReadinessCheck
    \/ StartupCheck

SpecHealth == InitHealth /\ [][NextHealth]_vars

(***************************************************************************)
(* One TokenBucket and one caller while time passes: consume and           *)
(* get_remaining, each a single step (their bodies run under the lock)     *)
(***************************************************************************)
clockFrame ==
    <<storageVars, now, buckets, next_instance, last_access, last_cleanup,
      inflight, response, admitted, healthVars, consumers, bucket_lock, outcomes,
      cdnaVars, singletonVars>>

BucketConsume ==
    /\ LET b == bucket_objs[TheBucket]
           out == consume(b, now)
       IN  /\ bucket_objs' = [bucket_objs EXCEPT ![TheBucket] = out.bucket]
           /\ last_call' = [op |-> "consume", ok |-> out.ok, remaining |-> 0,
                            before |-> b, time |-> now]
    /\ UNCHANGED clockFrame

BucketGetRemaining ==
    /\ LET b == bucket_objs[TheBucket]
       IN  /\ bucket_objs' = [bucket_objs EXCEPT ![TheBucket] = after_get_remaining(b, now)]
           /\ last_call' = [op |-> "get_remaining", ok |-> TRUE,
                            remaining |-> get_remaining(b, now),
                            before |-> b, time |-> now]
    /\ UNCHANGED clockFrame

NextClock ==
    \/ Tick
    \/ BucketConsume
    \/ BucketGetRemaining

SpecClock == InitBucket /\ [][NextClock]_vars

(***************************************************************************)
(* InMemoryCDNAStorage (api/storage/memory.py)                             *)
(* Lists are objects: PROFILES holds the lists of the class, _config the   *)
(* list it refers to. A list handed to update_config becomes the list of   *)
(* the configuration.                                                      *)
(***************************************************************************)
ScalesOf(ls, cfg) == ls[cfg.dimension_scales]

Snapshot ==
    [config |-> _config, scales |-> ScalesOf(lists, _config), history |-> _history,
     quarantine |-> _quarantine]

CDNAResult(op, profile_id, apply, flag) ==
    [op |-> op, profile_id |-> profile_id, apply |-> apply, flag |-> flag,
     time |-> now, before |-> Snapshot]

switch_profile_SharesList(table, ls, cfg, profile_id, t) ==
    IF profile_id \notin DOMAIN table
    THEN [flag |-> FALSE, config |-> cfg, lists |-> ls]
    ELSE [flag |-> TRUE,
          config |-> [profile |-> profile_id, dimension_scales |-> table[profile_id],
                      timestamp |-> t],
          lists |-> ls]

\* switch_profile: dimension_scales becomes list(profile['scales']), a new list
switch_profile(table, ls, cfg, profile_id, t) ==
    IF profile_id \notin DOMAIN table
    THEN [flag |-> FALSE, config |-> cfg, lists |-> ls]
    ELSE [flag |-> TRUE,
          config |-> [profile |-> profile_id, dimension_scales |-> OwnList,
                      timestamp |-> t],
          lists |-> [ls EXCEPT ![OwnList] = ls[table[profile_id]]]]

\* update_config: config holds the keys given ({v}) or not (None)
update_config(ls, cfg, config, t) ==
    [flag |-> TRUE,
     config |-> [profile |-> IF config.profile # None THEN TheOne(config.profile)
                             ELSE cfg.profile,
                 dimension_scales |-> IF config.dimension_scales # None THEN OwnList
                                      ELSE cfg.dimension_scales,
                 timestamp |-> t],
     lists |-> IF config.dimension_scales # None
               THEN [ls EXCEPT ![OwnList] = TheOne(config.dimension_scales)]
               ELSE ls]

add_history(history, entry, t) == <<[entry EXCEPT !.timestamp = t]>> \o history

start_quarantine_Restarts(q) ==
    [flag |-> TRUE,
     quarantine |-> [active |-> TRUE, time_left |-> QuarantineTime,
                     metrics |-> ZeroMetrics]]

start_quarantine(q) ==
    IF q.active THEN [flag |-> FALSE, quarantine |-> q]
    ELSE [flag |-> TRUE,
          quarantine |-> [active |-> TRUE, time_left |-> QuarantineTime,
                          metrics |-> ZeroMetrics]]

stop_quarantine(q, history, apply, t) ==
    IF ~q.active THEN [flag |-> FALSE, quarantine |-> q, history |-> history]
    ELSE [flag |-> TRUE,
          quarantine |-> [q EXCEPT !.active = FALSE],
          history |-> IF apply
                      THEN add_history(history,
                               [action |-> "quarantine_applied", metrics |-> q.metrics,
                                timestamp |-> 0], t)
                      ELSE history]

cdnaFrame == <<storageVars, now, rateLimitVars, bucketVars, healthVars, singletonVars>>

SwitchProfile(profile_id) ==
    /\ LET out == switch_profile(PROFILES, lists, _config, profile_id, now)
       IN  /\ _config' = out.config
           /\ lists' = out.lists
           /\ cdna_result' = CDNAResult("switch_profile", profile_id, FALSE, out.flag)
    /\ UNCHANGED <<PROFILES, _history, _quarantine, cdnaFrame>>

UpdateConfig(config) ==
    /\ LET out == update_config(lists, _config, config, now)
       IN  /\ _config' = out.config
           /\ lists' = out.lists
           /\ cdna_result' = CDNAResult("update_config", "", FALSE, out.flag)
    /\ UNCHANGED <<PROFILES, _history, _quarantine, cdnaFrame>>

AddHistory(entry) ==
    /\ Len(_history) < MaxHistory
    /\ _history' = add_history(_history, entry, now)
    /\ cdna_result' = CDNAResult("add_history", "", FALSE, TRUE)
    /\ UNCHANGED <<PROFILES, lists, _config, _quarantine, cdnaFrame>>

StartQuarantine ==
    /\ LET out == start_quarantine(_quarantine)
       IN  /\ _quarantine' = out.quarantine
           /\ cdna_result' = CDNAResult("start_quarantine", "", FALSE, out.flag)
    /\ UNCHANGED <<PROFILES, lists, _config, _history, cdnaFrame>>

StopQuarantine(apply) ==
    /\ apply /\ _quarantine.active => Len(_history) < MaxHistory
    /\ LET out == stop_quarantine(_quarantine, _history, apply, now)
       IN  /\ _quarantine' = out.quarantine
           /\ _history' = out.history
           /\ cdna_result' = CDNAResult("stop_quarantine", "", apply, out.flag)
    /\ UNCHANGED <<PROFILES, lists, _config, cdnaFrame>>

\* a caller changes, in place, the list it got from get_config (the copy of
\* the configuration is shallow)
EditScales ==
    /\ lists[_config.dimension_scales][1] # 0
    /\ lists' = [lists EXCEPT ![_config.dimension_scales][1] = 0]
    /\ UNCHANGED <<PROFILES, _config, _history, _quarantine, cdna_result, cdnaFrame>>

\* a caller counts an event in the metrics it got from get_quarantine_status
\* (the copy of the status is shallow)
TouchMetrics ==
    /\ _quarantine.metrics.token_churn = 0
    /\ _quarantine' = [_quarantine EXCEPT !.metrics.token_churn = 1]
    /\ UNCHANGED <<PROFILES, lists, _config, _history, cdna_result, cdnaFrame>>

\* what switch_profile is asked for: the built-in profiles and two others
SwitchInputs == ProfileIds \cup {"custom", ""}

ConfigInputs2 ==
    { [profile |-> None, dimension_scales |-> {<<10, 10, 10, 10, 10, 10, 10, 10>>}],
      [profile |-> {"custom"}, dimension_scales |-> None] }

HistoryInputs == { [action |-> "profile_switch", metrics |-> ZeroMetrics, timestamp |-> 0] }

InitCDNA ==
    /\ NoStorage
    /\ NoApi

\* the configuration and the profiles
NextProfiles ==
    \/ Tick
    \/ \E profile_id \in SwitchInputs : SwitchProfile(profile_id)
    \/ \E config \in ConfigInputs2 : UpdateConfig(config)
    \/ EditScales

SpecProfiles == InitCDNA /\ [][NextProfiles]_vars

\* the quarantine and the history
NextQuarantine ==
    \/ Tick
    \/ \E entry \in HistoryInputs : AddHistory(entry)
    \/ StartQuarantine
    \/ \E apply \in BOOLEAN : StopQuarantine(apply)
    \/ TouchMetrics

SpecQuarantine == InitCDNA /\ [][NextQuarantine]_vars

(***************************************************************************)
(* InMemoryTokenStorage(): __new__ and __init__ run by threads, statement  *)
(* by statement (InMemoryGridStorage and InMemoryCDNAStorage have the      *)
(* same two methods), and create through the reference obtained            *)
(***************************************************************************)
NotConstructing == [pc |-> "idle", ran_init |-> FALSE]

singletonFrame ==
    <<grids, next_grid_id, added, result, issued, threadVars, now, rateLimitVars,
      bucketVars, healthVars, cdnaVars>>

At_(t, pc) == ctor[t].pc = pc
Goto(t, pc) == ctor' = [ctor EXCEPT ![t].pc = pc]

\* InMemoryTokenStorage() is called; __new__: if cls._instance is None
NewCheck(t) ==
    /\ At_(t, "idle")
    /\ IF _instance = "none" THEN Goto(t, "new_wait") ELSE Goto(t, "init")
    /\ UNCHANGED <<_instance, _initialized, class_lock, tokenStorageVars, singletonFrame>>

\* with cls._lock:
NewLock(t) ==
    /\ At_(t, "new_wait")
    /\ class_lock = NoOwner
    /\ class_lock' = t
    /\ Goto(t, "new_locked")
    /\ UNCHANGED <<_instance, _initialized, tokenStorageVars, singletonFrame>>

\* if cls._instance is None: cls._instance = super().__new__(cls)
NewMake(t) ==
    /\ At_(t, "new_locked")
    /\ IF _instance = "none"
       THEN /\ _instance' = "bare"
            /\ Goto(t, "new_flag")
            /\ UNCHANGED class_lock
       ELSE /\ class_lock' = NoOwner
            /\ Goto(t, "init")
            /\ UNCHANGED _instance
    /\ UNCHANGED <<_initialized, tokenStorageVars, singletonFrame>>

\* cls._instance._initialized = False ; the lock is released
NewFlag(t) ==
    /\ At_(t, "new_flag")
    /\ _instance' = "made"
    /\ _initialized' = FALSE
    /\ class_lock' = NoOwner
    /\ Goto(t, "init")
    /\ UNCHANGED <<tokenStorageVars, singletonFrame>>

\* __init__: if self._initialized: return (AttributeError while the
\* attribute is not there yet)
InitCheck(t) ==
    /\ At_(t, "init")
    /\ IF _instance = "bare" THEN Goto(t, "error")
       ELSE IF _initialized THEN Goto(t, "ref")
       ELSE ctor' = [ctor EXCEPT ![t] = [pc |-> "init_storage", ran_init |-> TRUE]]
    /\ UNCHANGED <<_instance, _initialized, class_lock, tokenStorageVars, singletonFrame>>

\* self._storage = {}
InitStorage(t) ==
    /\ At_(t, "init_storage")
    /\ storage' = EmptyMap
    /\ Goto(t, "init_next")
    /\ UNCHANGED <<_instance, _initialized, class_lock, next_local_id, local_ids,
                   created, singletonFrame>>

\* self._next_local_id = 1 ; self._lock = threading.RLock()
InitNextLocalId(t) ==
    /\ At_(t, "init_next")
    /\ next_local_id' = 1
    /\ Goto(t, "init_flag")
    /\ UNCHANGED <<_instance, _initialized, class_lock, storage, local_ids,
                   created, singletonFrame>>

\* self._initialized = True ; the constructor returns the instance
InitFlag(t) ==
    /\ At_(t, "init_flag")
    /\ _initialized' = TRUE
    /\ Goto(t, "ref")
    /\ UNCHANGED <<_instance, class_lock, tokenStorageVars, singletonFrame>>

\* create through the reference the constructor returned
CreateThrough(t, data) ==
    /\ At_(t, "ref")
    /\ Len(local_ids) < MaxCreates
    /\ LET out == token_create(storage, next_local_id, data)
           token == CHOOSE tok \in out.ret : TRUE
       IN  /\ storage' = out.storage
           /\ next_local_id' = out.next_local_id
           /\ local_ids' = Append(local_ids, LocalIdOf(token.id))
           /\ created' = Append(created, token.id)
    /\ UNCHANGED <<_instance, _initialized, class_lock, ctor, singletonFrame>>

InitSingleton ==
    /\ grids = EmptyMap
    /\ next_grid_id = 1
    /\ added = EmptyMap
    /\ issued = <<>>
    /\ result = Call("__init__", 0, 0, 0, Origin, 0, 0, OkFlag(TRUE))
    /\ NoThreads
    /\ NoTokenStorage
    /\ now = 0
    /\ NoRateLimit
    /\ NoConsumers
    /\ NoHealth
    /\ NoCDNA
    /\ _instance = "none"
    /\ _initialized = FALSE
    /\ class_lock = NoOwner
    /\ ctor = [t \in Threads |-> NotConstructing]

NextSingleton ==
    \/ \E t \in Threads : NewCheck(t)
    \/ \E t \in Threads : NewLock(t)
    \/ \E t \in Threads : NewMake(t)
    \/ \E t \in Threads : NewFlag(t)
    \/ \E t \in Threads : InitCheck(t)
    \/ \E t \in Threads : InitStorage(t)
    \/ \E t \in Threads : InitNextLocalId(t)
    \/ \E t \in Threads : InitFlag(t)
    \/ \E t \in Threads, data \in CreateInputs : CreateThrough(t, data)

SpecSingleton == InitSingleton /\ [][NextSingleton]_vars

(***************************************************************************)
(* The readiness probe with InMemoryGridStorage injected as grid_storage:  *)
(* grids are created and deleted, and get_grid(0) is answered by the       *)
(* storage                                                                 *)
(***************************************************************************)
\* what grid_storage.get_grid(0) does when grid_storage is the storage
BackedDeps ==
    [deps EXCEPT !.get_grid = IF get_grid(grids, 0) = None THEN "none" ELSE "grid"]

BackedReadinessCheck ==
    /\ readiness_check(BackedDeps)
    /\ UNCHANGED <<deps, healthFrame>>

\* the runtime, the token storage and the others start or stop working
OtherDepsChange(d) ==
    /\ d.get_grid = deps.get_grid
    /\ DepsChange(d)

InitGridReady ==
    /\ NoStorage
    /\ now = 0
    /\ NoRateLimit
    /\ NoConsumers
    /\ NoCDNA
    /\ NoSingleton
    /\ startup_complete = FALSE
    /\ deps \in { d \in DepsStates : d.get_grid = "none" }
    /\ health_response = NoHealthResponse

NextGridReady ==
    \/ Tick
    \/ \E config \in ConfigInputs : CreateGrid(config)
    \/ \E g \in GridIds : DeleteGrid(g)
    \/ \E d \in DepsStates : OtherDepsChange(d)
    \/ BackedReadinessCheck
    \/ StartupCheck

SpecGridReady == InitGridReady /\ [][NextGridReady]_vars

(***************************************************************************)
(* What the claims speak of                                                *)
(***************************************************************************)
\* the ids held by the buckets of layer L
BucketIds(grid, L) == UNION { grid.index[L][k] : k \in DOMAIN grid.index[L] }

\* the buckets of layer L that hold id
BucketsOf(grid, L, id) == { k \in DOMAIN grid.index[L] : id \in grid.index[L][k] }

\* brute force over the token table: the tokens with a coordinate in L
\* within r of p, as <<id, distance>>
BruteForce(grid, L, p, r) ==
    { <<t, Distance(p, grid.tokens[t].coords[L])>> :
        t \in { c \in DOMAIN grid.tokens :
                  /\ grid.tokens[c].coords[L] # Unset
                  /\ Distance(p, grid.tokens[c].coords[L]) <= r } }

Entries(seq) == { seq[i] : i \in DOMAIN seq }

IsListQuery == result.op \in {"find_neighbors", "range_query"} /\ result.status = "ok"
IsFind == result.op = "find_neighbors" /\ result.status = "ok"
TheGrid == grids[result.grid_id]
\* the centre of the last find_neighbors
Centre == TheGrid.tokens[result.token_id].coords[result.space]

\* C1: after remove(T) no bucket of any layer holds T's id, and len() is the
\* number of distinct ids added and not removed since.
C1_IndexConsistency ==
    /\ \A g \in DOMAIN grids :
          /\ DOMAIN grids[g].tokens = DOMAIN added[g]
          /\ GridLen(grids[g]) = Cardinality(DOMAIN added[g])
    /\ result.op = "remove_token" =>
          \A L \in Layers : result.token_id \notin BucketIds(TheGrid, L)

C1_Witness ==
    /\ result.op = "remove_token" /\ result.flag
    /\ GridLen(TheGrid) = MaxTokenId - 1
    /\ \E L \in Layers : Cardinality(DOMAIN TheGrid.index[L]) > 1

\* C2: every id in a bucket of layer L is a key of the token table, and that
\* token has a coordinate in L.
C2_NoDanglingIds ==
    \A g \in DOMAIN grids : \A L \in Layers : \A id \in BucketIds(grids[g], L) :
        /\ id \in DOMAIN grids[g].tokens
        /\ grids[g].tokens[id].coords[L] # Unset

C2_Witness ==
    /\ result.op = "add_token" /\ result.moved
    /\ BucketIds(TheGrid, 0) # {}
    /\ result.token_id \notin BucketIds(TheGrid, 0)
    /\ result.token_id \in BucketIds(TheGrid, LastLayer)

\* C3: a re-add of an id with other coordinates leaves the id, in every
\* layer, in the bucket of its new coordinate and in no other bucket (in no
\* bucket where it has no coordinate), and len() as it was.
C3_ReAdd ==
    [][ (result'.op = "add_token" /\ result'.moved) =>
          LET g == result'.grid_id
              id == result'.token_id
              new == added'[g][id].coords
          IN  /\ \A L \in Layers :
                    BucketsOf(grids'[g], L, id) =
                        IF new[L] # Unset
                        THEN {BucketKey(grids'[g].bucket_size, new[L])}
                        ELSE {}
              /\ GridLen(grids'[g]) = GridLen(grids[g]) ]_vars

C3_Witness ==
    /\ result.op = "add_token" /\ result.moved
    /\ GridLen(TheGrid) > 1
    /\ BucketsOf(TheGrid, 0, result.token_id) # {}

\* C4: find_neighbors with a limit k > 0 returns the first k of the brute
\* force list of the other tokens within the radius, ascending by distance.
C4_NeighborsAreBruteForce ==
    (IsFind /\ result.max_results > 0) =>
        LET all == { h \in BruteForce(TheGrid, result.space, Centre, result.radius) :
                       h[1] # result.token_id }
            got == result.list
        IN  /\ Entries(got) \subseteq all
            /\ Len(got) = IF Cardinality(all) < result.max_results
                           THEN Cardinality(all) ELSE result.max_results
            /\ \A i, j \in DOMAIN got : i < j => got[i][2] <= got[j][2] /\ got[i] # got[j]
            /\ \A h \in all \ Entries(got) : \A i \in DOMAIN got : got[i][2] <= h[2]

C4_Witness ==
    /\ IsFind /\ result.max_results = 1 /\ Len(result.list) = 1
    /\ Cardinality(BruteForce(TheGrid, result.space, Centre, result.radius)) = MaxTokenId
    /\ BucketKey(TheGrid.bucket_size,
                 TheGrid.tokens[result.list[1][1]].coords[result.space])
          # BucketKey(TheGrid.bucket_size, Centre)

\* C5: entries at the same distance are in ascending order of id, and of the
\* candidates at the distance of the last entry kept the lower ids are kept.
C5_TiesByAscendingId ==
    IsListQuery =>
        LET got == result.list
            p == IF result.op = "find_neighbors" THEN Centre ELSE result.point
            all == { h \in BruteForce(TheGrid, result.space, p, result.radius) :
                       result.op = "find_neighbors" => h[1] # result.token_id }
        IN  /\ \A i, j \in DOMAIN got :
                  (i < j /\ got[i][2] = got[j][2]) => got[i][1] < got[j][1]
            /\ \A h \in all \ Entries(got) : \A i \in DOMAIN got :
                  got[i][2] = h[2] => got[i][1] < h[1]

C5_Witness ==
    /\ IsFind /\ result.max_results = 1 /\ Len(result.list) = 1
    /\ \E h \in BruteForce(TheGrid, result.space, Centre, result.radius) :
          /\ h[1] \notin {result.token_id, result.list[1][1]}
          /\ h[2] = result.list[1][2]

\* C6: find_neighbors with max_results <= 0 returns no entry.
C6_ZeroLimitIsEmpty ==
    (result.op = "find_neighbors" /\ result.max_results <= 0) => result.list = <<>>

C6_Witness ==
    /\ IsFind /\ result.max_results <= 0
    /\ Cardinality(BruteForce(TheGrid, result.space, Centre, result.radius)) > 1

\* seq with entry h put at its place in the order
RECURSIVE InsertSorted(_, _)
InsertSorted(seq, h) ==
    IF seq = <<>> THEN <<h>>
    ELSE IF Before(h, Head(seq)) THEN <<h>> \o seq
    ELSE <<Head(seq)>> \o InsertSorted(Tail(seq), h)

\* C7: range_query at the coordinate of an indexed token t is find_neighbors
\* of t without limit, with <<t, 0>> put in.
C7_RangeQueryEquivalence ==
    (result.op = "range_query" /\ result.status = "ok") =>
        \A t \in DOMAIN TheGrid.tokens :
            TheGrid.tokens[t].coords[result.space] = result.point =>
                result.list =
                    InsertSorted(find_neighbors(grids, result.grid_id, t, result.space,
                                                result.radius, Unlimited).list,
                                 <<t, 0>>)

C7_Witness ==
    /\ result.op = "range_query" /\ Len(result.list) = MaxTokenId
    /\ result.point # Origin
    /\ TheGrid.tokens[result.list[2][1]].coords[result.space] = result.point
    /\ result.list[MaxTokenId][2] > 0

\* C8: the radius is inclusive; with A = (0,0,0), B = (3,4,0) and
\* C = (100,100,100) in layer 0, radius 5 around A gives B at 5 and radius
\* 4.9 gives nothing.
C8_InclusiveRadius ==
    /\ IsListQuery =>
          LET p == IF result.op = "find_neighbors" THEN Centre ELSE result.point IN
          /\ \A i \in DOMAIN result.list : result.list[i][2] <= result.radius
          /\ (result.op = "range_query" \/ result.max_results = Unlimited) =>
                \A t \in DOMAIN TheGrid.tokens :
                    ( /\ TheGrid.tokens[t].coords[result.space] # Unset
                      /\ result.op = "find_neighbors" => t # result.token_id
                      /\ Distance(p, TheGrid.tokens[t].coords[result.space]) = result.radius )
                    => <<t, result.radius>> \in Entries(result.list)
    /\ \A a, b, c \in TokenIds :
          ( /\ IsFind /\ result.token_id = a /\ result.space = 0
            /\ result.max_results = Unlimited
            /\ DOMAIN TheGrid.tokens = {a, b, c}
            /\ TheGrid.tokens[a].coords[0] = PointA
            /\ TheGrid.tokens[b].coords[0] = PointB
            /\ TheGrid.tokens[c].coords[0] = PointC )
          => /\ result.radius = 500 => result.list = << <<b, 500>> >>
             /\ result.radius = 490 => result.list = <<>>

C8_Witness ==
    \E a, b, c \in TokenIds :
        /\ IsFind /\ result.token_id = a /\ result.space = 0
        /\ result.max_results = Unlimited /\ result.radius = 500
        /\ DOMAIN TheGrid.tokens = {a, b, c}
        /\ TheGrid.tokens[a].coords[0] = PointA
        /\ TheGrid.tokens[b].coords[0] = PointB
        /\ TheGrid.tokens[c].coords[0] = PointC
        /\ result.list = << <<b, 500>> >>

\* the grid without the tokens that were given to add_token inactive
RECURSIVE RemoveAll(_, _)
RemoveAll(grid, ids) ==
    IF ids = {} THEN grid
    ELSE LET id == CHOOSE x \in ids : TRUE
         IN  RemoveAll(GridRemove(grid, id), ids \ {id})

InactiveIds(g) == { id \in DOMAIN added[g] : ~added[g][id].active }

WithoutInactive(g) == Put(grids, g, RemoveAll(grids[g], InactiveIds(g)))

\* C9: inactive tokens never contribute to calculate_field_influence or
\* calculate_density: both give what they give on the grid without the
\* inactive tokens.
C9_InactiveNeverContribute ==
    /\ result.op = "calculate_field_influence" =>
          result.number = calculate_field_influence(WithoutInactive(result.grid_id),
                             result.grid_id, result.space, result.point, result.radius).number
    /\ result.op = "calculate_density" =>
          result.number = calculate_density(WithoutInactive(result.grid_id),
                             result.grid_id, result.space, result.point, result.radius).number

\* C9, the part that holds: a token given inactive is in the token table and
\* is returned by find_neighbors and range_query.
C9_InactiveStillReturned ==
    /\ \A g \in DOMAIN grids : InactiveIds(g) \subseteq DOMAIN grids[g].tokens
    /\ IsListQuery =>
          LET p == IF result.op = "find_neighbors" THEN Centre ELSE result.point IN
          \A id \in InactiveIds(result.grid_id) :
              ( /\ result.op = "find_neighbors" => id # result.token_id
                /\ TheGrid.tokens[id].coords[result.space] # Unset
                /\ Distance(p, TheGrid.tokens[id].coords[result.space]) <= result.radius )
              => \E i \in DOMAIN result.list : result.list[i][1] = id

\* the only token of the grid of the last call
TheToken == TheGrid.tokens[CHOOSE id \in DOMAIN TheGrid.tokens : TRUE]
\* the Token it was added as
TheAdded == added[result.grid_id][TheToken.id]
InfluenceAt(p) ==
    calculate_field_influence(grids, result.grid_id, result.space, p, result.radius).number

IsSingleTokenInfluence ==
    /\ result.op = "calculate_field_influence" /\ result.status = "ok"
    /\ GridLen(TheGrid) = 1
    /\ TheToken.coords[result.space] # Unset

\* C10: the influence of a single token with field_radius R is not negative,
\* is greatest at the token, does not grow with the distance, and is 0 at
\* every distance from R on.
C10_InfluenceMonotone ==
    IsSingleTokenInfluence =>
        LET c == TheToken.coords[result.space]
            d == Distance(result.point, c)
        IN  /\ result.number >= 0
            /\ result.number <= InfluenceAt(c)
            /\ \A q \in ProbePoints : Distance(q, c) >= d => InfluenceAt(q) <= result.number
            /\ d * 10 >= TheAdded.field_radius => result.number = 0

C10_Witness ==
    /\ IsSingleTokenInfluence
    /\ TheAdded.field_radius = 10000 /\ TheAdded.field_strength = 5000
    /\ result.point = <<500, 0, 0>>
    /\ result.radius = 2000
    /\ result.number > 0
    /\ result.number < InfluenceAt(Origin)
    /\ InfluenceAt(<<800, 0, 0>>) < result.number
    /\ InfluenceAt(<<1000, 0, 0>>) = 0

\* the tokens of the grid of the last call with a coordinate in its layer
IndexedInLayer == { t \in DOMAIN TheGrid.tokens : TheGrid.tokens[t].coords[result.space] # Unset }

\* C11: calculate_density returns 0.0 without an error for radius 0 on a
\* populated grid and on a grid with no token in the queried layer, and it
\* never returns a negative value.
C11_DensityGuard ==
    (result.op = "calculate_density" /\ result.grid_id \in DOMAIN grids) =>
        /\ (result.space \in Layers /\ result.radius = 0) =>
              result.status = "ok" /\ result.number = 0
        /\ (result.space \in Layers /\ result.radius >= 0 /\ IndexedInLayer = {}) =>
              result.status = "ok" /\ result.number = 0
        /\ result.number >= 0

C11_Witness ==
    /\ result.op = "calculate_density" /\ result.radius = 0
    /\ result.status = "ok" /\ result.number = 0
    /\ \E t \in IndexedInLayer :
          TheGrid.tokens[t].active /\ TheGrid.tokens[t].coords[result.space] = result.point

\* C12: a query of an existing grid with a layer outside [0,7] fails with
\* InvalidLayer and with a negative radius fails with InvalidRadius; nothing
\* is returned and the grid is as it was.
C12_InvalidArguments ==
    [][ (result'.op \in QueryOps /\ result'.grid_id \in DOMAIN grids) =>
          LET badLayer == result'.space \notin Layers
              badRadius == result'.radius < 0
          IN  /\ (badLayer /\ ~badRadius) => result'.status = "InvalidLayer"
              /\ (badRadius /\ ~badLayer) => result'.status = "InvalidRadius"
              /\ (badLayer /\ badRadius) =>
                    result'.status \in {"InvalidLayer", "InvalidRadius"}
              /\ (badLayer \/ badRadius) =>
                    /\ result'.list = <<>> /\ result'.number = 0
                    /\ grids' = grids /\ next_grid_id' = next_grid_id ]_vars

C12_Witness ==
    /\ result.op = "find_neighbors" /\ result.status = "InvalidLayer"
    /\ result.space = NumLayers
    /\ result.present /\ GridLen(TheGrid) > 1

C14_SequentialGridIds ==
    /\ \A i \in DOMAIN issued : issued[i] = i
    /\ result.op = "create_grid" => result.number = Len(issued)
    /\ result.op = "list_grids" =>
          /\ \A i, j \in DOMAIN result.ids : i # j => result.ids[i] # result.ids[j]
          /\ Entries(result.ids) = DOMAIN added

C14_Witness ==
    /\ result.op = "create_grid" /\ result.number = MaxGridId
    /\ Len(issued) = MaxGridId
    /\ issued[1] \notin DOMAIN grids

C17_RemoveReportsPresence ==
    [][ result'.op = "remove_token" =>
          LET g == result'.grid_id
              was == g \in DOMAIN added /\ result'.token_id \in DOMAIN added[g]
          IN  /\ result'.flag = was
              /\ ~was => grids' = grids /\ next_grid_id' = next_grid_id ]_vars

C17_Witness ==
    /\ result.op = "remove_token" /\ ~result.flag
    /\ result.grid_id \in DOMAIN grids /\ GridLen(TheGrid) > 0

Running(t) == calls[t].phase = "running"
Waiting(t) == calls[t].phase = "waiting"
LiveGrids == DOMAIN grids

\* C15: the number of live grids never exceeds the maximum instance count,
\* also with create requests of several threads; a create request made when
\* the count has reached the maximum is rejected and adds no grid.
C15_MaxInstances ==
    /\ Cardinality(LiveGrids) <= MaxInstances
    /\ \A t \in Threads :
          (calls[t].op = "create_grid" /\ Running(t)) => Cardinality(LiveGrids) < MaxInstances

\* C18: no query of a grid is in progress while an add or remove of that grid
\* is, no two adds or removes of a grid overlap, and the grid a query reads
\* is the grid it found when it started.
C18_QueriesExcludeMutations ==
    /\ \A t1, t2 \in Threads :
          ( /\ t1 # t2 /\ Running(t1) /\ Running(t2)
            /\ calls[t1].op \in PerGridOps /\ calls[t2].op \in PerGridOps
            /\ calls[t1].grid_id = calls[t2].grid_id )
          => calls[t1].op \in QueryOps /\ calls[t2].op \in QueryOps
    /\ \A t \in Threads :
          (Running(t) /\ calls[t].op \in QueryOps) =>
              calls[t].seen = IF calls[t].grid_id \in LiveGrids
                              THEN {grids[calls[t].grid_id]} ELSE {}

C18_Witness ==
    \E t1, t2 \in Threads :
        /\ Running(t1) /\ calls[t1].op = "add_token"
        /\ Waiting(t2) /\ calls[t2].op \in QueryOps
        /\ calls[t1].grid_id = calls[t2].grid_id
        /\ calls[t1].grid_id \in LiveGrids

\* C19: the lock of the grid-id map is not the lock of a grid: a query of a
\* grid that waits for the lock can go on while a query of another grid, or
\* the creation or deletion of another grid, is in progress.
C19_DistinctLocks ==
    \A t1, t2 \in Threads :
        ( /\ t1 # t2
          /\ Waiting(t1) /\ calls[t1].op \in QueryOps /\ calls[t1].grid_id \in LiveGrids
          /\ Running(t2)
          /\ \/ calls[t2].op \in QueryOps \cup {"delete_grid"}
                   /\ calls[t2].grid_id \in LiveGrids
             \/ calls[t2].op = "create_grid"
          /\ calls[t2].grid_id # calls[t1].grid_id )
        => ENABLED Enter(t1)

\* C20: every token created gets a local_id greater than that of every token
\* created before it, over any creates, updates, deletes and clears, so no
\* id is issued twice.
C20_LocalIdsIncrease ==
    \A i, j \in DOMAIN local_ids : i < j => local_ids[i] < local_ids[j]

(***************************************************************************)
(* C21..C30: the rate limiter and the health probes                        *)
(***************************************************************************)
Returned(ok) == { i \in 1 .. Len(outcomes) : outcomes[i].ok = ok }

\* C21: of the M consume() calls that threads have made on a bucket of
\* capacity N, with the clock standing still, exactly min(M, N) returned
\* True and the others False, however the threads interleaved.
C21_ConsumeExactlyCapacity ==
    TheBucket \in DOMAIN bucket_objs =>
        LET N == bucket_objs[TheBucket].capacity
            M == Len(outcomes)
        IN  /\ Cardinality(Returned(TRUE)) = Min(M, N)
            /\ Cardinality(Returned(FALSE)) = M - Min(M, N)

\* more calls than tokens, by several threads, all returned
C21_Witness ==
    /\ TheBucket \in DOMAIN bucket_objs
    /\ InConsume = {}
    /\ Len(outcomes) > bucket_objs[TheBucket].capacity
    /\ Cardinality({ outcomes[i].thread : i \in 1 .. Len(outcomes) }) > 1
    /\ \E i, j \in 1 .. Len(outcomes) :
           /\ outcomes[i].ok /\ ~outcomes[j].ok
           /\ outcomes[i].thread # outcomes[j].thread

\* C22: with the clock standing still, a client of a non-health path (one
\* known only by its address included) gets 200 for its first
\* default_rate_limit requests and 429 RATE_LIMIT_EXCEEDED for the next one,
\* and X-RateLimit-Limit on its responses is default_rate_limit.
C22_DefaultLimitApplies ==
    (now = 0 /\ response.code # 0 /\ response.path \notin ExemptPaths) =>
        /\ response.limit = DefaultRateLimit
        /\ response.seq <= DefaultRateLimit => response.code = 200
        /\ response.seq = DefaultRateLimit + 1 =>
               response.code = 429 /\ response.error = "RATE_LIMIT_EXCEEDED"

WindowTicks == WindowSeconds * TicksPerSecond

\* the requests of a user id admitted in the window that starts at w
AdmittedIn(user_id, w) ==
    { i \in 1 .. Len(admitted[user_id].times) :
          /\ admitted[user_id].times[i] >= w
          /\ admitted[user_id].times[i] < w + WindowTicks }

\* C23: in every window of 60 seconds at most default_rate_limit requests of
\* one authenticated user and at most ip_rate_limit requests of one
\* unauthenticated address are admitted.
C23_PerMinuteLimit ==
    \A user_id \in DOMAIN admitted : \A w \in 0 .. now :
        Cardinality(AdmittedIn(user_id, w)) <= rate_limit_of(user_id)

\* who sends a request: the authenticated user, else the API key, else the address
IdentityOf(request) ==
    IF request.user # None
    THEN <<"user", TheOne(request.user)[1], TheOne(request.user)[2]>>
    ELSE IF request.api_key # None
    THEN <<"key", TheOne(request.api_key)[1], TheOne(request.api_key)[2]>>
    ELSE <<"ip", IF request.host # None THEN TheOne(request.host) ELSE "unknown", "">>

\* whether dispatch would admit the request in the state bs, objs at time t
WouldAdmit(request, bs, objs, t) ==
    LET user_id == get_user_id(request)
    IN  IF user_id \in DOMAIN bs
        THEN consume(objs[bs[user_id]], t).ok
        ELSE consume(TokenBucket(rate_limit_of(user_id), t), t).ok

Limited == { request \in Requests : request.path \notin ExemptPaths }

\* C24: a request of one identity (user, API key or address) never changes
\* whether a request of a different identity is admitted or rejected.
C24_IndependentLimits ==
    [][\A r1, r2 \in Limited :
           (IdentityOf(r1) # IdentityOf(r2) /\ Dispatch(r1)) =>
               (WouldAdmit(r2, buckets', bucket_objs', now')
                    <=> WouldAdmit(r2, buckets, bucket_objs, now))]_vars

HealthPaths == {"/health", "/api/v1/health"}

\* C25: a request to /health or /api/v1/health is forwarded to the handler
\* and creates no bucket, takes no token and leaves buckets, last_access and
\* last_cleanup as they were, whatever the bucket of its sender holds.
C25_HealthNotLimited ==
    [][\A request \in Requests :
           (request.path \in HealthPaths /\ Dispatch(request)) =>
               /\ response'.forwarded /\ response'.code = 200
               /\ response'.path = request.path
               /\ UNCHANGED <<buckets, bucket_objs, next_instance, last_access,
                              last_cleanup, inflight>>]_vars

\* a health request answered while a bucket is empty and its owner was
\* just rejected
C25_Witness ==
    /\ response.path \in HealthPaths
    /\ response.forwarded
    /\ \E user_id \in DOMAIN buckets :
           /\ ~HasToken(Refill(bucket_objs[buckets[user_id]], now))
           /\ admitted[user_id].last_code = 429

C27_CleanupKeepsActive ==
    [][ /\ (CleanupOldBuckets \/ \E f \in inflight : Finish(f)) =>
               IF now - last_cleanup < IntervalTicks
               THEN UNCHANGED <<buckets, last_access, last_cleanup>>
               ELSE /\ DOMAIN buckets' =
                           { u \in DOMAIN buckets : now - last_access[u] <= IntervalTicks }
                    /\ DOMAIN last_access' = DOMAIN buckets'
                    /\ \A u \in DOMAIN buckets' :
                           /\ buckets'[u] = buckets[u]
                           /\ last_access'[u] = last_access[u]
                           /\ bucket_objs'[buckets'[u]] = bucket_objs[buckets[u]]
                    /\ last_cleanup' = now
        /\ \A u \in DOMAIN admitted :
               ( /\ admitted'[u].count > admitted[u].count
                 /\ now - admitted[u].last_time <= IntervalTicks )
               => admitted'[u].instance = admitted[u].instance ]_vars

\* a cleanup has removed the bucket of one user id and kept the bucket of
\* another, which was accessed again afterwards and is the same instance
C27_Witness ==
    /\ last_cleanup >= IntervalTicks
    /\ \E u \in DOMAIN admitted : u \notin DOMAIN buckets
    /\ \E v \in DOMAIN buckets :
           /\ admitted[v].count > 1
           /\ admitted[v].instance = buckets[v]
           /\ bucket_objs[buckets[v]].last_update > last_cleanup
           /\ \E i \in 1 .. Len(admitted[v].times) : admitted[v].times[i] < last_cleanup

\* C28: the readiness probe answers 503 while uptime is below the minimum
\* startup time and startup is not marked complete; otherwise 200 exactly
\* when the runtime is there, count() succeeds and get_grid(0) returns a
\* grid, and 503 when one of the three is not ok; a 200 marks startup complete.
C28_Readiness ==
    health_response.endpoint = "/health/ready" =>
        LET r == health_response
            starting == r.time < MinStartupTime * TicksPerSecond /\ ~r.complete_before
            ok == r.deps.runtime /\ r.deps.count = "ok" /\ r.deps.get_grid = "grid"
        IN  /\ r.code \in {200, 503}
            /\ starting => r.code = 503
            /\ ~starting => (r.code = 200 <=> ok)
            /\ r.code = 200 => startup_complete /\ r.ready

\* the first 200 of the probe; startup is now marked complete
C28_Witness ==
    /\ health_response.endpoint = "/health/ready"
    /\ health_response.code = 200
    /\ ~health_response.complete_before
    /\ startup_complete

\* readiness would answer 503 now
NotReady ==
    \/ Uptime < MinStartupTicks /\ ~startup_complete
    \/ ~deps.runtime \/ deps.count = "raises" \/ deps.get_grid # "grid"

\* C29: the liveness probe can be called in every state and answers 200
\* with status 'alive': before startup completes, without a runtime, and
\* when the storages raise so that readiness answers 503.
C29_LivenessAlways ==
    /\ ENABLED LivenessCheck
    /\ health_response.endpoint = "/health/live" =>
           health_response.code = 200 /\ health_response.status = "alive"

\* alive while nothing else is: startup not complete, no runtime, both
\* storages raising
C29_Witness ==
    /\ health_response.endpoint = "/health/live"
    /\ health_response.code = 200
    /\ health_response.deps = deps /\ health_response.time = now
    /\ ~startup_complete
    /\ ~deps.runtime /\ deps.count = "raises" /\ deps.get_grid = "raises"
    /\ Uptime >= MinStartupTicks
    /\ NotReady

\* C30: when count() of the token storage raises, GET /health answers 200
\* and reports the overall status 'degraded'.
C30_StorageErrorDegraded ==
    (health_response.endpoint = "/health" /\ health_response.deps.count = "raises") =>
        health_response.code = 200 /\ health_response.status = "degraded"

(***************************************************************************)
(* C31..C40                                                                *)
(***************************************************************************)
\* C31: the balance of a TokenBucket is always between 0 and its capacity,
\* however long it was idle and however often consume was called; and
\* get_remaining leaves tokens and last_update as they were.
C31_BalanceInRange ==
    \A i \in DOMAIN bucket_objs :
        LET b == bucket_objs[i]
        IN  /\ 0 <= b.tokens
            /\ b.tokens <= b.capacity * OneToken
            /\ (i = TheBucket /\ last_call.op = "get_remaining") =>
                   /\ b.tokens = last_call.before.tokens
                   /\ b.last_update = last_call.before.last_update
                   /\ last_call.remaining >= 0
                   /\ last_call.remaining <= b.capacity

\* an empty bucket left idle for longer than it takes to fill, then asked
\* for what remains, then consumed from
C31_Witness ==
    /\ TheBucket \in DOMAIN bucket_objs
    /\ last_call.op = "consume"
    /\ last_call.ok
    /\ last_call.before.tokens = 0
    /\ last_call.time - last_call.before.last_update
           > last_call.before.capacity * OneToken
    /\ bucket_objs[TheBucket].tokens = (last_call.before.capacity - 1) * OneToken

\* C32: no layer index holds an empty bucket: a bucket key is in the index
\* exactly when some token id is in that bucket, over every add, re-add
\* and remove.
C32_NoEmptyBuckets ==
    \A g \in DOMAIN grids : \A L \in Layers :
        /\ \A key \in DOMAIN grids[g].index[L] : grids[g].index[L][key] # {}
        /\ DOMAIN grids[g].index[L] =
               { BucketKey(grids[g].bucket_size, grids[g].tokens[t].coords[L]) :
                     t \in { c \in DOMAIN grids[g].tokens :
                                 grids[g].tokens[c].coords[L] # Unset } }

\* the last token of the grid was removed and its buckets went with it
C32_Witness ==
    /\ result.op = "remove_token" /\ result.flag /\ result.present
    /\ GridLen(TheGrid) = 0
    /\ \A L \in Layers : DOMAIN TheGrid.index[L] = {}

\* C33: start_quarantine returns True only when the quarantine is inactive,
\* and then makes it active with time_left 300 and zeroed metrics; when it
\* is active it returns False and changes nothing. stop_quarantine returns
\* True only when it is active; when inactive it returns False and changes
\* neither state nor history. stop_quarantine(apply=True) puts exactly one
\* 'quarantine_applied' entry in front of the history, apply=False none.
C33_QuarantineMachine ==
    [][ /\ StartQuarantine =>
               IF _quarantine.active
               THEN ~cdna_result'.flag /\ UNCHANGED <<_quarantine, _history>>
               ELSE /\ cdna_result'.flag
                    /\ _quarantine' = [active |-> TRUE, time_left |-> 300,
                                       metrics |-> ZeroMetrics]
                    /\ UNCHANGED _history
        /\ \A apply \in BOOLEAN : StopQuarantine(apply) =>
               IF ~_quarantine.active
               THEN ~cdna_result'.flag /\ UNCHANGED <<_quarantine, _history>>
               ELSE /\ cdna_result'.flag
                    /\ ~_quarantine'.active
                    /\ IF apply
                       THEN /\ Len(_history') = Len(_history) + 1
                            /\ Head(_history').action = "quarantine_applied"
                            /\ Tail(_history') = _history
                       ELSE UNCHANGED _history ]_vars

\* a quarantine whose metrics had moved was stopped and applied, after an
\* earlier entry was already in the history
C33_Witness ==
    /\ cdna_result.op = "stop_quarantine" /\ cdna_result.flag /\ cdna_result.apply
    /\ ~_quarantine.active
    /\ Len(_history) = 2
    /\ Head(_history).action = "quarantine_applied"
    /\ Head(_history).metrics.token_churn = 1
    /\ cdna_result.before.quarantine.active

\* the scales the class holds, by profile
TableScales == [p \in DOMAIN PROFILES |-> lists[PROFILES[p]]]

\* C34: switch_profile(p) for p not built in returns False and leaves profile,
\* dimension_scales and timestamp as they were; for a built-in p it returns
\* True, sets profile to p and dimension_scales to a copy of the scales of p;
\* and the built-in profile table is never modified.
C34_SwitchProfile ==
    [][ /\ TableScales' = BuiltinProfiles
        /\ \A p \in SwitchInputs : SwitchProfile(p) =>
               IF p \notin ProfileIds
               THEN /\ ~cdna_result'.flag
                    /\ UNCHANGED _config
                    /\ ScalesOf(lists', _config') = ScalesOf(lists, _config)
               ELSE /\ cdna_result'.flag
                    /\ _config'.profile = p
                    /\ ScalesOf(lists', _config') = BuiltinProfiles[p]
                    /\ _config'.dimension_scales # PROFILES'[p] ]_vars

\* after a switch to another profile a caller changed the scales of the
\* configuration in place; the profile still has its own
C34_Witness ==
    /\ cdna_result.op = "switch_profile" /\ cdna_result.flag
    /\ cdna_result.profile_id = "creative"
    /\ cdna_result.before.config.profile # "creative"
    /\ _config.profile = "creative"
    /\ ScalesOf(lists, _config)[1] = 0
    /\ TableScales["creative"] = BuiltinProfiles["creative"]

\* C35: delete(id) returns True exactly when id was stored, and afterwards
\* get(id) is None; update of an id that is not stored returns None and
\* changes nothing; and count() is the number of tokens created since the
\* last clear and not deleted since.
C35_TokenStorage ==
    [][ /\ \A id \in StorageIds : TokenDelete(id) =>
               /\ result'.flag <=> id \in DOMAIN storage
               /\ id \notin DOMAIN storage'
        /\ \A id \in StorageIds, data \in UpdateInputs :
               (id \notin DOMAIN storage /\ TokenUpdate(id, data)) =>
                   ~result'.flag /\ UNCHANGED tokenStorageVars
        /\ token_count(storage') = Len(created')
        /\ (TokenCount /\ result'.op = "count") => result'.number = Len(created) ]_vars

\* count after two creates, a clear, a create and nothing else left
C35_Witness ==
    /\ result.op = "count"
    /\ result.number = 1
    /\ local_ids = <<1, 2, 1>>
    /\ Len(created) = 1

RanInit == { t \in DOMAIN ctor : ctor[t].ran_init }

\* C36: when threads construct InMemoryTokenStorage concurrently, all get
\* the one instance, its state is initialised once, and no token created
\* through a reference is discarded, nor its id issued again, because of
\* the construction by another thread.
C36_SingletonInitialisedOnce ==
    /\ Cardinality(RanInit) <= 1
    /\ \A i \in 1 .. Len(created) : created[i] \in DOMAIN storage
    /\ \A i, j \in 1 .. Len(local_ids) : i # j => local_ids[i] # local_ids[j]

\* the caller's bucket when dispatch reaches consume: the stored one, or a
\* new one, refilled to the time of the call
BucketAtConsume(request) ==
    LET got == get_bucket(get_user_id(request), now)
    IN  [instance |-> got.instance, bucket |-> Refill(got.objs[got.instance], now)]

\* C37: on a rate-limited path the handler is invoked only after a
\* successful consume on the caller's bucket: without a whole token the
\* request is answered 429 and the handler is not invoked, and a request
\* that reaches the handler has taken exactly one token from the bucket.
C37_HandlerAfterConsume ==
    [][ \A request \in Requests :
            (Dispatch(request) /\ request.path \notin ExemptPaths) =>
                LET at == BucketAtConsume(request)
                    forwarded == inflight' \ inflight
                IN  IF at.bucket.tokens >= OneToken
                    THEN /\ Cardinality(forwarded) = 1
                         /\ \A f \in forwarded :
                                f.request = request /\ f.instance = at.instance
                         /\ bucket_objs'[at.instance].tokens =
                                at.bucket.tokens - OneToken
                         /\ UNCHANGED response
                    ELSE /\ inflight' = inflight
                         /\ response'.code = 429
                         /\ ~response'.forwarded
                         /\ response'.path = request.path
                         /\ bucket_objs'[at.instance].tokens = at.bucket.tokens ]_vars

C37_Witness ==
    /\ response.code = 429
    /\ ~response.forwarded
    /\ response.path \notin ExemptPaths
    /\ inflight # {}
    /\ \E f \in inflight : bucket_objs[f.instance].tokens = 0

\* the bucket of a user id had cleanup never removed it: created at the
\* first request, and one token taken at each time in times
RECURSIVE Replay(_, _, _)
Replay(b, times, i) ==
    IF i > Len(times) THEN b
    ELSE Replay(Take(Refill(b, times[i])), times, i + 1)

NeverCleaned(user_id, t) ==
    LET times == HistoryOf(user_id).times
    IN  IF times = <<>> THEN TokenBucket(rate_limit_of(user_id), t)
        ELSE Replay(TokenBucket(rate_limit_of(user_id), times[1]), times, 1)

\* the default configuration, as far as cleanup goes: no capacity exceeds
\* the tokens refilled during cleanup_interval
WithinInterval(user_id) == rate_limit_of(user_id) * OneToken <= IntervalTicks

\* C38: when no bucket can hold more tokens than cleanup_interval refills
\* (the default 100 and 30 against 600 s), a request is admitted by dispatch
\* exactly when the caller's bucket, had cleanup_old_buckets never removed
\* it, would hold a whole token at that time.
C38_CleanupUnobservable ==
    [][ \A request \in Requests :
            ( /\ Dispatch(request)
              /\ request.path \notin ExemptPaths
              /\ WithinInterval(get_user_id(request)) ) =>
                ( inflight' # inflight <=>
                      Refill(NeverCleaned(get_user_id(request), now), now).tokens
                          >= OneToken ) ]_vars

\* a bucket within the interval was removed by cleanup after its only token
\* was taken, and the next request of its user, on a new bucket, was admitted
C38_Witness ==
    \E u \in DOMAIN admitted \cap DOMAIN buckets :
        /\ WithinInterval(u)
        /\ DOMAIN admitted = {u}
        /\ buckets[u] = 2
        /\ Len(admitted[u].times) = 2
        /\ admitted[u].count = 2
        /\ admitted[u].last_code = 200

\* C39: InMemoryGridStorage never holds a grid under id 0, get_grid(0) is
\* None in every reachable state, and the readiness probe whose grid
\* storage it is never answers 200, whatever grids have been created.
C39_NoGridZero ==
    /\ \A g \in DOMAIN grids : g >= 1
    /\ get_grid(grids, 0) = None
    /\ health_response.endpoint = "/health/ready" =>
           health_response.code = 503 /\ ~health_response.ready

\* the probe answered after startup completed, with the runtime and the
\* token storage working and a grid in the storage
C39_Witness ==
    /\ health_response.endpoint = "/health/ready"
    /\ health_response.code = 503
    /\ health_response.complete_before
    /\ health_response.deps.runtime
    /\ health_response.deps.count = "ok"
    /\ health_response.deps.get_grid = "none"
    /\ health_response.time >= MinStartupTicks
    /\ health_response.time = now
    /\ DOMAIN grids # {}

\* a probe that can complete the startup has answered 200
ProbeSucceeds ==
    /\ ReadinessCheck \/ StartupCheck
    /\ health_response'.code = 200

\* C40: the startup-complete flag never goes back to False and becomes True
\* only in a readiness or startup probe that answers 200, which always sets
\* it; once it is set the readiness probe never answers
\* 'startup_in_progress'; the startup probe answers 200 exactly when the
\* runtime is there, count() succeeds and uptime has reached the minimum
\* startup time, whatever the flag says.
C40_StartupFlag ==
    [][ /\ startup_complete => startup_complete'
        /\ (~startup_complete /\ startup_complete') => ProbeSucceeds
        /\ ProbeSucceeds => startup_complete'
        /\ (ReadinessCheck /\ startup_complete) =>
               health_response'.reason # "startup_in_progress"
        /\ StartupCheck =>
               /\ health_response'.code \in {200, 503}
               /\ health_response'.code = 200 <=>
                      /\ deps.runtime
                      /\ deps.count = "ok"
                      /\ Uptime >= MinStartupTicks ]_vars

\* the startup probe answers 503 although startup was completed before
C40_Witness ==
    /\ health_response.endpoint = "/health/startup"
    /\ health_response.code = 503
    /\ health_response.complete_before
    /\ startup_complete
    /\ ~health_response.deps.runtime
    /\ health_response.time = now

====
